---- MODULE Spec2Model ----
(***************************************************************************)
(* Faucet backend (dp2ptrade/w3e_faucet_bknd): the claim path of the two   *)
(* server variants, their claim executors and eligibility checkers, and    *)
(* the process-local claim bookkeeping, over a model of the faucet         *)
(* contract's read and write calls.                                        *)
(*                                                                         *)
(*   variant "main"       routes/faucet.ts POST /claim                     *)
(*                        + services/blockchain.ts BlockchainService       *)
(*                        + services/claimData.ts  ClaimDataService        *)
(*   variant "serverless" api/server.ts POST /faucet/claim/eth|token       *)
(*                        + api/blockchain.ts ServerlessBlockchainService  *)
(*                        + api/claimData.ts  ServerlessClaimDataService   *)
(*                                                                         *)
(* Addresses are sequences of characters ("0x" dropped, 40 hex digits      *)
(* shortened to two); the clock counts seconds and Date.now() is           *)
(* clock * 1000.                                                           *)
(***************************************************************************)
EXTENDS Integers, Sequences, FiniteSets, TLC

----------------------------------------------------------------------------
(* Bounds of the model *)

\* number of claim requests one behaviour handles
MaxRequests == 2
\* number of claim requests handled at the same time
MaxInFlight == 2
\* number of clock advances in one behaviour
MaxTicks == 1
\* number of session tokens one behaviour issues
MaxSessions == 2
\* number of handler invocations of one process
MaxInvocations == 3
\* number of clock advances during a sign-in
MaxNonceTicks == 2
\* number of nonces one behaviour generates
MaxNonces == 2
\* cooldown, in seconds, the contract stores for the registered ERC-20 token
TokenCooldownSecs == 3600

----------------------------------------------------------------------------
(* Program constants *)

\* const cooldownPeriod = 24 * 60 * 60
CooldownPeriodEth == 86400
\* RATE_LIMIT_WINDOW default, milliseconds
RateLimitWindow == 900000
\* DAILY_CLAIM_LIMIT default
DailyClaimLimit == 1
\* retryAfter of the daily-limit answer
DailyRetryAfter == 86400

MsPerSec == 1000
MsPerDay == CooldownPeriodEth * MsPerSec

----------------------------------------------------------------------------
(* Optional values:  absent is <<>>,  present is <<v>> *)

NoValue == <<>>
Some(v) == <<v>>

----------------------------------------------------------------------------
(* Address strings *)

HexLower == {"0", "1", "2", "3", "4", "5", "6", "7", "8", "9", "a", "b", "c", "d", "e", "f"}
HexUpper == {"A", "B", "C", "D", "E", "F"}

LowerChar(c) ==
  CASE c = "A" -> "a"
    [] c = "B" -> "b"
    [] c = "C" -> "c"
    [] c = "D" -> "d"
    [] c = "E" -> "e"
    [] c = "F" -> "f"
    [] OTHER -> c

\* String.prototype.toLowerCase
ToLowerCase(s) == [i \in DOMAIN s |-> LowerChar(s[i])]

\* '0x0000000000000000000000000000000000000000'
ZeroAddress == <<"0", "0">>
\* tokenAddress left out of the request body (undefined)
NoToken == <<>>

\* request inputs: one account in lower case and in its checksummed mixed
\* case, a second account, and a string that is no address
AddrA == <<"a", "1">>
AddrAMixed == <<"A", "1">>
AddrB == <<"b", "2">>
BadAddr == <<"z">>
AddressInputs == {AddrA, AddrAMixed, AddrB, BadAddr}

\* USDT of the main registry, '0xd82183033422079e6281f350566Da971c13Cb1e7'
TokUsdt == <<"d", "D">>
\* LINK of the serverless registry, '0x779877A7B0D9E8603169DdbD7836e478b4624789'
TokLink == <<"7", "A">>
\* UNI of the main registry, '0x4c55c5a8D00079d678996431b8CD01B0b3aD2b0E'
TokUni == <<"4", "E">>
TokenInputs == {NoToken, TokUsdt, TokLink}

\* /^0x[a-fA-F0-9]{40}$/
validateAddress(s) ==
  /\ Len(s) = Len(ZeroAddress)
  /\ \A i \in DOMAIN s : s[i] \in HexLower \cup HexUpper

\* mixed-case strings that carry a valid EIP-55 checksum
Checksummed == {AddrAMixed, TokUsdt, TokLink, TokUni}

\* ethers.isAddress: the format, and the checksum when the case is mixed
isAddress(s) ==
  /\ validateAddress(s)
  /\ \/ \A i \in DOMAIN s : s[i] \in HexLower
     \/ s \in Checksummed

\* the 20-byte account an address string is ABI-encoded to
Acct(s) == ToLowerCase(s)

----------------------------------------------------------------------------
(* Eligibility checkers, as functions of the values their contract reads   *)
(* returned.  tokenInfo is the supportedTokens tuple [cooldown, active].   *)

Eligible == [canClaim |-> TRUE, remainingTime |-> NoValue]
Ineligible == [canClaim |-> FALSE, remainingTime |-> NoValue]
Remaining(secs) == [canClaim |-> FALSE, remainingTime |-> Some(secs)]

\* canClaimEth with the cooldown comparison made strict
canClaimEthStrict(isBlacklisted, lastClaimTime, now) ==
  IF isBlacklisted THEN Ineligible
  ELSE IF lastClaimTime = 0 THEN Eligible
  ELSE LET timeSinceLastClaim == now - lastClaimTime
       IN IF timeSinceLastClaim > CooldownPeriodEth THEN Eligible
          ELSE Remaining(CooldownPeriodEth - timeSinceLastClaim)

\* BlockchainService.canClaimEth
canClaimEth(isBlacklisted, lastClaimTime, now) ==
  IF isBlacklisted THEN Ineligible
  ELSE IF lastClaimTime = 0 THEN Eligible
  ELSE LET timeSinceLastClaim == now - lastClaimTime
       IN IF timeSinceLastClaim >= CooldownPeriodEth THEN Eligible
          ELSE Remaining(CooldownPeriodEth - timeSinceLastClaim)

\* BlockchainService.canClaimToken
canClaimToken(isBlacklisted, tokenInfo, lastClaimTime, now) ==
  IF isBlacklisted THEN Ineligible
  ELSE IF ~tokenInfo.active THEN Ineligible
  ELSE IF lastClaimTime = 0 THEN Eligible
  ELSE LET timeSinceLastClaim == now - lastClaimTime
       IN IF timeSinceLastClaim >= tokenInfo.cooldown THEN Eligible
          ELSE Remaining(tokenInfo.cooldown - timeSinceLastClaim)

\* ServerlessBlockchainService.canClaimEth; readOk is FALSE when the
\* lastEthClaimTime call throws (the catch answers canClaim: false)
ServerlessCanClaimEth(readOk, lastClaimTime, currentTime) ==
  IF ~readOk THEN Ineligible
  ELSE LET timeSinceLastClaim == currentTime - lastClaimTime
       IN IF timeSinceLastClaim >= CooldownPeriodEth THEN Eligible
          ELSE Remaining(CooldownPeriodEth - timeSinceLastClaim)

\* ServerlessBlockchainService.canClaimToken
ServerlessCanClaimToken(readOk, lastClaimTime, tokenInfo, currentTime) ==
  IF ~readOk THEN Ineligible
  ELSE LET timeSinceLastClaim == currentTime - lastClaimTime
       IN IF timeSinceLastClaim >= tokenInfo.cooldown THEN Eligible
          ELSE Remaining(tokenInfo.cooldown - timeSinceLastClaim)

\* the cooldown test inside BlockchainService.claimEth / claimToken
CooldownActive(lastClaimTime, now, cooldownPeriod) ==
  lastClaimTime # 0 /\ (now - lastClaimTime) < cooldownPeriod

\* Math.ceil(a / b) for a >= 0, b > 0
Ceil(a, b) == (a + b - 1) \div b

----------------------------------------------------------------------------
(* State *)

VARIABLES
  variant,           \* which server this process runs: "main" or "serverless"
  clock,             \* wall clock, seconds
  ticks,             \* clock advances so far
  blacklisted,       \* contract: set of blacklisted accounts
  lastEthClaimTime,  \* contract: account -> timestamp of its last ETH claim
  lastClaimTime,     \* contract: <<account, token>> -> timestamp of the last claim
  tokenActive,       \* contract: token -> active flag of supportedTokens
  txs,               \* claim transactions sent to the contract, hash = index
  dailyClaims,       \* routes/faucet.ts dailyClaims map
  claimHistory,      \* claimHistory map of the claim data service
  tokenRegistry,     \* tokenRegistry map of the claim data service
  reqs,              \* the request handlers in flight and where each stands
  started,           \* claim requests received so far
  answered,          \* the request answered last, with its answer
  elig,              \* last eligibility check made: its inputs and its result
  adminTokenRegistry,\* tokenRegistry map of the admin routes module
  adminState,        \* adminState of the admin routes module (the pause flag)
  nonces,            \* nonces map of the auth routes
  issued,            \* the session tokens (JWT payloads) signed so far
  nonceCount,        \* nonces generated so far
  redeemed,          \* for each nonce, the verify requests it has passed
  surface,           \* the request answered last on the auth, admin and token-list
                     \* routes, with its answer
  removed,           \* tokens an admin removed and nobody added again since
  app,               \* the handler module's application: absent, or its number
  created,           \* number of applications the handler has created
  readyApps,         \* the applications whose ready() has completed
  inv,               \* the handler invocations: where each one stands
  injected,          \* the last request handed to an application
  lookup,            \* last registry lookup made: the address asked for and
                     \* what getToken returned for each spelling of it
  atPause            \* when the faucet was paused last: the transactions sent
                     \* by then, and whether no claim request was in flight

handlerVars == <<app, created, readyApps, inv, injected>>
otherVars == <<lookup, handlerVars>>
authVars == <<nonces, issued, nonceCount, redeemed>>
adminVars == <<adminTokenRegistry, adminState, authVars, surface, removed, atPause>>
chainVars == <<blacklisted, lastEthClaimTime, lastClaimTime, tokenActive, txs>>
localVars == <<dailyClaims, claimHistory, tokenRegistry>>
vars == <<variant, clock, ticks, blacklisted, lastEthClaimTime, lastClaimTime,
          tokenActive, txs, dailyClaims, claimHistory, tokenRegistry, reqs, started,
          answered, elig, adminVars, otherVars>>
reqVars == <<reqs, started, answered>>

Variants == {"main", "serverless"}
Accounts == {Acct(AddrA), Acct(AddrB)}
ChainTokens == {Acct(TokUsdt), Acct(TokLink)}
Requests == 1..MaxInFlight

\* one second before midnight of the tenth day
StartClock == 10 * CooldownPeriodEth - 1
TickSteps == {1, CooldownPeriodEth}

\* Date.now()
DateNow == clock * MsPerSec
\* Math.floor(Date.now() / 1000)
NowSecs == DateNow \div MsPerSec
\* new Date().toDateString(): the calendar day
DateString(ms) == ms \div MsPerDay

\* Map.get(key) || dflt
MapGet(map, key, dflt) == IF key \in DOMAIN map THEN map[key] ELSE dflt
\* Map.set(key, value)
MapSet(map, key, value) == [k \in DOMAIN map \cup {key} |-> IF k = key THEN value ELSE map[k]]

\* routes/faucet.ts initializeTokenRegistry (after ClaimDataService.initializeDefaultTokens)
MainRegistry ==
  MapSet(MapSet(MapSet(MapSet(<<>>, ZeroAddress, [symbol |-> "ETH", amount |-> "0.01"]),
                       ToLowerCase(ZeroAddress), [symbol |-> "ETH", amount |-> "0.1"]),
                ToLowerCase(TokUsdt), [symbol |-> "USDT", amount |-> "100"]),
         ToLowerCase(TokUni), [symbol |-> "UNI", amount |-> "5"])

\* ServerlessClaimDataService.initializeDefaultTokens
ServerlessRegistry ==
  MapSet(<<>>, ToLowerCase(TokLink), [symbol |-> "LINK", amount |-> "10"])

\* A request slot no request has arrived in.  The fields up to resp are the
\* handler's inputs, locals and answer; the next four record, for the
\* properties, what the contract held when the request arrived and whether a
\* contract read of the request threw; calls lists the contract calls the
\* request has made, in order, each with whether it returned.
IdleReq ==
  [pc |-> "idle", route |-> "", address |-> <<>>, tokenAddress |-> <<>>,
   userClaims |-> [count |-> 0, lastClaim |-> 0], now |-> 0, claimKey |-> <<>>,
   tokenInfo |-> NoValue, isBlacklisted |-> NoValue, lastRead |-> NoValue,
   checkedAt |-> NoValue, tx |-> NoValue, resp |-> NoValue,
   blacklistedAtStart |-> FALSE, lastAtStart |-> 0, startedAt |-> 0, readFailed |-> FALSE,
   calls |-> <<>>]

NoElig == [impl |-> "", fn |-> "", isBlacklisted |-> FALSE, active |-> FALSE,
           cooldown |-> 0, lastClaimTime |-> 0, now |-> 0, readOk |-> TRUE,
           result |-> NoValue]

\* adminState as the admin routes module creates it, and after /unpause
NotPaused == [isPaused |-> FALSE, pauseReason |-> "", pausedAt |-> 0, pausedBy |-> <<>>]

\* no request answered yet on the auth, admin and token-list routes.
\* credential is the Authorization header of the request; handled tells
\* whether the route's handler ran; tokens is the token list of a
\* GET /faucet/tokens answer; body is the body of a request on the auth
\* routes (for POST /auth/nonce with the nonce the answer carries), or the
\* address of a history request; claims is the list of a history answer.
NoSurface ==
  [route |-> "", credential |-> NoValue, status |-> 0, error |-> "",
   handled |-> FALSE, tokens |-> NoValue, body |-> NoValue, claims |-> NoValue]

\* the handler invocations of one process
Invocations == 1..MaxInvocations
\* an invocation that has not arrived; mine is the application it created
IdleInvocation == [pc |-> "idle", mine |-> NoValue]

\* no registry lookup made yet
NoLookup == [address |-> NoValue, results |-> <<>>]

Init ==
  /\ variant \in Variants
  /\ clock = StartClock
  /\ ticks = 0
  /\ blacklisted = {}
  /\ lastEthClaimTime = [a \in Accounts |-> 0]
  /\ lastClaimTime = [k \in Accounts \X ChainTokens |-> 0]
  /\ tokenActive = [t \in ChainTokens |-> TRUE]
  /\ txs = <<>>
  /\ dailyClaims = <<>>
  /\ claimHistory = <<>>
  /\ tokenRegistry = IF variant = "main" THEN MainRegistry ELSE ServerlessRegistry
  /\ reqs = [r \in Requests |-> IdleReq]
  /\ started = 0
  /\ answered = IdleReq
  /\ elig = NoElig
  /\ adminTokenRegistry = <<>>
  /\ adminState = NotPaused
  /\ nonces = <<>>
  /\ issued = {}
  /\ lookup = NoLookup
  /\ app = NoValue
  /\ created = 0
  /\ readyApps = {}
  /\ inv = [i \in Invocations |-> IdleInvocation]
  /\ injected = NoValue
  /\ nonceCount = 0
  /\ redeemed = [n \in 1..MaxNonces |-> 0]
  /\ surface = NoSurface
  /\ removed = {}
  /\ atPause = [txs |-> 0, idle |-> TRUE]

----------------------------------------------------------------------------
(* Environment: the clock and the contract's owner *)

Tick ==
  /\ ticks < MaxTicks
  /\ \E d \in TickSteps : clock' = clock + d
  /\ ticks' = ticks + 1
  /\ UNCHANGED <<variant, chainVars, localVars, reqVars, elig, adminVars, otherVars>>

\* the accounts the owner may blacklist
BlacklistCandidates == {Acct(AddrA)}

\* the contract owner blacklists an account
Blacklist ==
  /\ \E a \in BlacklistCandidates \ blacklisted : blacklisted' = blacklisted \cup {a}
  /\ UNCHANGED <<variant, clock, ticks, lastEthClaimTime, lastClaimTime, tokenActive,
                 txs, localVars, reqVars, elig, adminVars, otherVars>>

\* the contract owner switches a supported token off (a token outside the
\* process's registry is never read, so only registered ones are switched)
DeactivateToken ==
  /\ \E t \in ChainTokens \cap DOMAIN tokenRegistry :
       /\ tokenActive[t]
       /\ tokenActive' = [tokenActive EXCEPT ![t] = FALSE]
  /\ UNCHANGED <<variant, clock, ticks, blacklisted, lastEthClaimTime, lastClaimTime,
                 txs, localVars, reqVars, elig, adminVars, otherVars>>

----------------------------------------------------------------------------
(* Contract calls *)

\* supportedTokens(token): [cooldown, active]; a token the contract does not
\* know reads as the zero tuple
supportedTokens(token) ==
  IF Acct(token) \in ChainTokens
  THEN [cooldown |-> TokenCooldownSecs, active |-> tokenActive[Acct(token)]]
  ELSE [cooldown |-> 0, active |-> FALSE]

\* lastClaimTime(recipient, token)
LastTokenClaim(recipient, token) ==
  IF Acct(token) \in ChainTokens THEN lastClaimTime[<<Acct(recipient), Acct(token)>>] ELSE 0

\* the contract's last-claim timestamp for a claim of tokenAddress (ETH when
\* it is absent or the zero address) by address; 0 for unknown accounts
LastClaimOf(address, tokenAddress) ==
  IF Acct(address) \notin Accounts THEN 0
  ELSE IF tokenAddress = NoToken \/ tokenAddress = ZeroAddress
       THEN lastEthClaimTime[Acct(address)]
       ELSE LastTokenClaim(address, tokenAddress)

\* the transaction a claimEthFor / claimTokenFor call sends; its hash is its index
\* gasLimit is the limit the call was given, absent when it was given none
NewTx(recipient, token, gasLimit) ==
  [to |-> Acct(recipient), token |-> token, status |-> "pending", sentAt |-> clock,
   gasLimit |-> gasLimit]
NextHash == Len(txs) + 1

\* the contract executes transaction h: it stamps the claim with the block time
Mined(h) ==
  /\ txs' = [txs EXCEPT ![h].status = "confirmed"]
  /\ IF txs[h].token = ZeroAddress
     THEN /\ lastEthClaimTime' = [lastEthClaimTime EXCEPT ![txs[h].to] = clock]
          /\ UNCHANGED lastClaimTime
     ELSE /\ lastClaimTime' = [lastClaimTime EXCEPT ![<<txs[h].to, Acct(txs[h].token)>>] = clock]
          /\ UNCHANGED lastEthClaimTime

\* transaction h reverts or is dropped: tx.wait() throws
Reverted(h) ==
  /\ txs' = [txs EXCEPT ![h].status = "failed"]
  /\ UNCHANGED <<lastEthClaimTime, lastClaimTime>>

----------------------------------------------------------------------------
(* Claim data service *)

\* addClaim with the address used as the key as given
addClaimKeyAsGiven(history, userAddress, claim) ==
  MapSet(history, userAddress, Append(MapGet(history, userAddress, <<>>), claim))

\* ClaimDataService.addClaim / ServerlessClaimDataService.addClaim
addClaim(history, userAddress, claim) ==
  LET userKey == ToLowerCase(userAddress)
  IN MapSet(history, userKey, Append(MapGet(history, userKey, <<>>), claim))

\* ClaimDataService.getToken: the key is used as given
getToken(registry, address) ==
  IF address \in DOMAIN registry THEN Some(registry[address]) ELSE NoValue

\* ServerlessClaimDataService.getToken: the key is lowercased
ServerlessGetToken(registry, address) ==
  IF ToLowerCase(address) \in DOMAIN registry THEN Some(registry[ToLowerCase(address)]) ELSE NoValue

----------------------------------------------------------------------------
(* Contract calls a request makes *)

Call(name, ok) == [name |-> name, ok |-> ok]
\* the calls names, all of which returned
CallsOk(names) == [i \in DOMAIN names |-> Call(names[i], TRUE)]
\* the calls names, the last of which threw
CallsFailing(names) == [i \in DOMAIN names |-> Call(names[i], i # Len(names))]

\* estimateGas results
GasEstimateLow == 21000
GasEstimateHigh == 21001
GasEstimates == {GasEstimateLow, GasEstimateHigh}
\* gasEstimate * 120n / 100n
GasLimit(gasEstimate) == (gasEstimate * 120) \div 100

----------------------------------------------------------------------------
(* Responses *)

Reply(status, error, message) ==
  [status |-> status, error |-> error, message |-> message,
   retryAfter |-> NoValue, remainingTime |-> NoValue, txHash |-> NoValue,
   symbol |-> "", amount |-> ""]

\* the handler returns: its locals are gone, the request keeps its inputs,
\* what its executor read and sent, and the answer
Returned(req, response) ==
  [req EXCEPT !.pc = "done", !.resp = Some(response),
              !.userClaims = IdleReq.userClaims, !.now = IdleReq.now,
              !.claimKey = IdleReq.claimKey, !.tokenInfo = IdleReq.tokenInfo]

\* the handler in slot r answers and the slot is free again
Finish(r, response) ==
  /\ reqs' = [reqs EXCEPT ![r] = IdleReq]
  /\ answered' = Returned(reqs[r], response)

FinishWith(r, req, response) ==
  /\ reqs' = [reqs EXCEPT ![r] = IdleReq]
  /\ answered' = Returned(req, response)

\* the handler in slot r goes on, suspended at its next await
Continue(r, req) ==
  /\ reqs' = [reqs EXCEPT ![r] = req]
  /\ UNCHANGED answered

\* a request arrives and takes the first free slot
Arrives(r) ==
  /\ started < MaxRequests
  /\ reqs[r].pc = "idle"
  /\ \A j \in Requests : j < r => reqs[j].pc # "idle"
  /\ started' = started + 1

----------------------------------------------------------------------------
(* Main server: POST /claim (routes/faucet.ts) over BlockchainService *)

\* tokenAddress || '0x0000000000000000000000000000000000000000'
OrZero(tokenAddress) == IF tokenAddress = NoToken THEN ZeroAddress ELSE tokenAddress

\* the dailyClaims entry the handler reads for the address today
UserClaims(claims, address, nowMs) ==
  MapGet(claims, <<ToLowerCase(address), DateString(nowMs)>>, [count |-> 0, lastClaim |-> 0])

\* POST /claim without the registry lookup's else branch
ClaimPrecheckAnyToken(address, tokenAddress, claims, registry, nowMs) ==
  IF ~isAddress(address) THEN Some(Reply(400, "Invalid Address", <<>>))
  ELSE LET userClaims == UserClaims(claims, address, nowMs)
       IN IF userClaims.count >= DailyClaimLimit
          THEN Some([Reply(429, "Daily Limit Exceeded", <<>>)
                       EXCEPT !.retryAfter = Some(DailyRetryAfter)])
          ELSE IF nowMs - userClaims.lastClaim < RateLimitWindow
          THEN Some([Reply(429, "Cooldown Active", <<>>)
                       EXCEPT !.retryAfter =
                         Some(Ceil(RateLimitWindow - (nowMs - userClaims.lastClaim), MsPerSec))])
          ELSE NoValue

\* The handler up to its blockchain call: the answer it returns there, or
\* NoValue when it goes on to the claim executor.
ClaimPrecheck(address, tokenAddress, claims, registry, nowMs) ==
  IF ~isAddress(address) THEN Some(Reply(400, "Invalid Address", <<>>))
  ELSE LET userClaims == UserClaims(claims, address, nowMs)
       IN IF userClaims.count >= DailyClaimLimit
          THEN Some([Reply(429, "Daily Limit Exceeded", <<>>)
                       EXCEPT !.retryAfter = Some(DailyRetryAfter)])
          ELSE IF nowMs - userClaims.lastClaim < RateLimitWindow
          THEN Some([Reply(429, "Cooldown Active", <<>>)
                       EXCEPT !.retryAfter =
                         Some(Ceil(RateLimitWindow - (nowMs - userClaims.lastClaim), MsPerSec))])
          ELSE IF getToken(registry, ToLowerCase(OrZero(tokenAddress))) = NoValue
          THEN Some(Reply(400, "Invalid Token", <<"Token not supported by this faucet">>))
          ELSE NoValue

\* !tokenAddress || tokenAddress === '0x0000000000000000000000000000000000000000'
IsEthClaim(tokenAddress) == tokenAddress = NoToken \/ tokenAddress = ZeroAddress

ClaimStart(r, address, tokenAddress) ==
  /\ variant = "main"
  /\ Arrives(r)
  /\ LET answer == ClaimPrecheck(address, tokenAddress, dailyClaims, tokenRegistry, DateNow)
         req == [reqs[r] EXCEPT
                   !.route = "claim", !.address = address, !.tokenAddress = tokenAddress,
                   !.now = DateNow, !.startedAt = NowSecs,
                   !.lastAtStart = LastClaimOf(address, tokenAddress),
                   !.blacklistedAtStart = isAddress(address) /\ Acct(address) \in blacklisted]
     IN IF answer # NoValue
        THEN FinishWith(r, req, answer[1])
        ELSE Continue(r,
               [req EXCEPT
                  !.pc = "exec",
                  !.userClaims = UserClaims(dailyClaims, address, DateNow),
                  !.claimKey = <<ToLowerCase(address), DateString(DateNow)>>,
                  !.tokenInfo = getToken(tokenRegistry, ToLowerCase(OrZero(tokenAddress)))])
  /\ UNCHANGED <<variant, clock, ticks, chainVars, localVars, elig, adminVars, otherVars>>

TransactionFailed(message) == Reply(400, "Transaction Failed", message)

ReadFailures == {"none", "blacklisted", "supportedTokens", "lastClaim"}

\* claimEth without the blacklist test
ClaimEthChecksNoBlacklist(fail, isBl, last, now) ==
  IF fail = "blacklisted" THEN Some(<<"ETH claim failed", "call failed">>)
  ELSE IF fail = "lastClaim" THEN Some(<<"ETH claim failed", "call failed">>)
  ELSE IF CooldownActive(last, now, CooldownPeriodEth)
  THEN Some(<<"ETH claim failed", "Cooldown active">>)
  ELSE NoValue

\* BlockchainService.claimEth up to the transaction: what it throws, or NoValue
ClaimEthChecks(fail, isBl, last, now) ==
  IF fail = "blacklisted" THEN Some(<<"ETH claim failed", "call failed">>)
  ELSE IF isBl THEN Some(<<"ETH claim failed", "Address is blacklisted">>)
  ELSE IF fail = "lastClaim" THEN Some(<<"ETH claim failed", "call failed">>)
  ELSE IF CooldownActive(last, now, CooldownPeriodEth)
  THEN Some(<<"ETH claim failed", "Cooldown active">>)
  ELSE NoValue

\* BlockchainService.claimToken up to the transaction: what it throws, or NoValue
ClaimTokenChecks(fail, isBl, tokenInfo, last, now) ==
  IF fail = "blacklisted" THEN Some(<<"Token claim failed", "call failed">>)
  ELSE IF isBl THEN Some(<<"Token claim failed", "Address is blacklisted">>)
  ELSE IF fail = "supportedTokens" THEN Some(<<"Token claim failed", "call failed">>)
  ELSE IF ~tokenInfo.active THEN Some(<<"Token claim failed", "Token not supported">>)
  ELSE IF fail = "lastClaim" THEN Some(<<"Token claim failed", "call failed">>)
  ELSE IF CooldownActive(last, now, tokenInfo.cooldown)
  THEN Some(<<"Token claim failed", "Cooldown active">>)
  ELSE NoValue

\* the contract reads claimEth makes up to the transaction
ClaimEthCalls(fail, isBl) ==
  IF fail = "blacklisted" THEN CallsFailing(<<"blacklisted">>)
  ELSE IF isBl THEN CallsOk(<<"blacklisted">>)
  ELSE IF fail = "lastClaim" THEN CallsFailing(<<"blacklisted", "lastEthClaimTime">>)
  ELSE CallsOk(<<"blacklisted", "lastEthClaimTime">>)

\* the contract reads claimToken makes up to the transaction
ClaimTokenCalls(fail, isBl, tokenInfo) ==
  IF fail = "blacklisted" THEN CallsFailing(<<"blacklisted">>)
  ELSE IF isBl THEN CallsOk(<<"blacklisted">>)
  ELSE IF fail = "supportedTokens" THEN CallsFailing(<<"blacklisted", "supportedTokens">>)
  ELSE IF ~tokenInfo.active THEN CallsOk(<<"blacklisted", "supportedTokens">>)
  ELSE IF fail = "lastClaim"
  THEN CallsFailing(<<"blacklisted", "supportedTokens", "lastClaimTime">>)
  ELSE CallsOk(<<"blacklisted", "supportedTokens", "lastClaimTime">>)

\* the reads and checks of claimEth / claimToken
ClaimExecReads(r, fail) ==
  /\ variant = "main"
  /\ reqs[r].pc = "exec"
  /\ LET q == reqs[r]
         isBl == Acct(q.address) \in blacklisted
         info == supportedTokens(q.tokenAddress)
         last == IF IsEthClaim(q.tokenAddress) THEN lastEthClaimTime[Acct(q.address)]
                 ELSE LastTokenClaim(q.address, q.tokenAddress)
         thrown == IF IsEthClaim(q.tokenAddress)
                   THEN ClaimEthChecks(fail, isBl, last, NowSecs)
                   ELSE ClaimTokenChecks(fail, isBl, info, last, NowSecs)
         read == [q EXCEPT
                    !.isBlacklisted = IF fail = "blacklisted" THEN NoValue ELSE Some(isBl),
                    !.lastRead = IF thrown = NoValue THEN Some(last) ELSE NoValue,
                    !.checkedAt = IF thrown = NoValue THEN Some(NowSecs) ELSE NoValue,
                    !.readFailed = thrown # NoValue /\ thrown[1][2] = "call failed",
                    !.calls = q.calls \o IF IsEthClaim(q.tokenAddress)
                                         THEN ClaimEthCalls(fail, isBl)
                                         ELSE ClaimTokenCalls(fail, isBl, info)]
     IN /\ IsEthClaim(q.tokenAddress) => fail # "supportedTokens"
        /\ IF thrown # NoValue
           THEN FinishWith(r, read, TransactionFailed(thrown[1]))
           ELSE Continue(r, [read EXCEPT !.pc = "submit"])
  /\ UNCHANGED <<variant, clock, ticks, chainVars, localVars, started, elig, adminVars, otherVars>>

SubmitOutcomes == {"sent", "estimateGas failed", "send failed"}

\* the executor trying again after a failed estimate or send
ClaimSubmitRetrying(r, outcome) ==
  /\ variant = "main"
  /\ reqs[r].pc = "submit"
  /\ LET q == reqs[r]
         sendFor == IF IsEthClaim(q.tokenAddress) THEN "claimEthFor" ELSE "claimTokenFor"
     IN IF outcome = "sent"
        THEN /\ txs' = Append(txs, NewTx(q.address, OrZero(q.tokenAddress), NoValue))
             /\ Continue(r, [q EXCEPT !.pc = "wait", !.tx = Some(NextHash),
                                      !.calls = @ \o CallsOk(<<sendFor>>)])
        ELSE /\ Continue(r, [q EXCEPT !.calls = @ \o CallsFailing(<<sendFor>>)])
             /\ UNCHANGED txs
  /\ UNCHANGED <<variant, clock, ticks, blacklisted, lastEthClaimTime, lastClaimTime,
                 tokenActive, localVars, started, elig, adminVars, otherVars>>

\* estimateGas and the claimEthFor transaction; claimTokenFor without estimate
ClaimSubmit(r, outcome) ==
  /\ variant = "main"
  /\ reqs[r].pc = "submit"
  /\ LET q == reqs[r]
     IN IF IsEthClaim(q.tokenAddress)
        THEN IF outcome = "sent"
             THEN /\ \E gasEstimate \in GasEstimates :
                       txs' = Append(txs, NewTx(q.address, ZeroAddress,
                                                Some(GasLimit(gasEstimate))))
                  /\ Continue(r, [q EXCEPT
                                    !.pc = "wait", !.tx = Some(NextHash),
                                    !.calls = @ \o CallsOk(<<"estimateGas", "claimEthFor">>)])
             ELSE /\ FinishWith(r,
                        [q EXCEPT !.calls = @ \o
                           IF outcome = "estimateGas failed"
                           THEN CallsFailing(<<"estimateGas">>)
                           ELSE CallsFailing(<<"estimateGas", "claimEthFor">>)],
                        TransactionFailed(<<"ETH claim failed", "Gas estimation failed", outcome>>))
                  /\ UNCHANGED txs
        ELSE /\ outcome # "estimateGas failed"
             /\ IF outcome = "sent"
                THEN /\ txs' = Append(txs, NewTx(q.address, q.tokenAddress, NoValue))
                     /\ Continue(r, [q EXCEPT
                                       !.pc = "wait", !.tx = Some(NextHash),
                                       !.calls = @ \o CallsOk(<<"claimTokenFor">>)])
                ELSE /\ FinishWith(r,
                           [q EXCEPT !.calls = @ \o CallsFailing(<<"claimTokenFor">>)],
                           TransactionFailed(<<"Token claim failed", outcome>>))
                     /\ UNCHANGED txs
  /\ UNCHANGED <<variant, clock, ticks, blacklisted, lastEthClaimTime, lastClaimTime,
                 tokenActive, localVars, started, elig, adminVars, otherVars>>

\* the history entry the main route appends
ClaimRecord(q, txHash) ==
  [timestamp |-> q.now, tokenAddress |-> OrZero(q.tokenAddress),
   amount |-> q.tokenInfo[1].amount, txHash |-> txHash]

\* tx.wait() returns the receipt: the executor returns its hash, the route
\* counts the claim, appends it to the history and answers
ClaimConfirmed(r) ==
  /\ variant = "main"
  /\ reqs[r].pc = "wait"
  /\ LET q == reqs[r]
         h == q.tx[1]
     IN /\ Mined(h)
        /\ dailyClaims' = MapSet(dailyClaims, q.claimKey,
                                 [count |-> q.userClaims.count + 1, lastClaim |-> q.now])
        /\ claimHistory' = addClaim(claimHistory, q.address, ClaimRecord(q, h))
        /\ FinishWith(r, [q EXCEPT !.calls = @ \o CallsOk(<<"wait">>)],
                      [Reply(200, "", <<>>) EXCEPT
                         !.txHash = Some(h), !.symbol = q.tokenInfo[1].symbol,
                         !.amount = q.tokenInfo[1].amount])
  /\ UNCHANGED <<variant, clock, ticks, blacklisted, tokenActive, tokenRegistry, started, elig, adminVars, otherVars>>

\* the route appending the claim although tx.wait() threw
ClaimNotConfirmedRecorded(r) ==
  /\ variant = "main"
  /\ reqs[r].pc = "wait"
  /\ LET q == reqs[r]
     IN /\ Reverted(q.tx[1])
        /\ claimHistory' = addClaim(claimHistory, q.address, ClaimRecord(q, q.tx[1]))
        /\ Finish(r, TransactionFailed(<<"ETH claim failed", "transaction execution reverted">>))
  /\ UNCHANGED <<variant, clock, ticks, blacklisted, tokenActive, dailyClaims, tokenRegistry,
                 started, elig, adminVars, otherVars>>

\* tx.wait() throws
ClaimNotConfirmed(r) ==
  /\ variant = "main"
  /\ reqs[r].pc = "wait"
  /\ LET q == reqs[r]
     IN /\ Reverted(q.tx[1])
        /\ FinishWith(r, [q EXCEPT !.calls = @ \o CallsFailing(<<"wait">>)],
             TransactionFailed(
               IF IsEthClaim(q.tokenAddress)
               THEN <<"ETH claim failed", "Gas estimation failed", "transaction execution reverted">>
               ELSE <<"Token claim failed", "transaction execution reverted">>))
  /\ UNCHANGED <<variant, clock, ticks, blacklisted, tokenActive, localVars, started, elig, adminVars, otherVars>>

\* a handler that counts the request and then throws
ClaimThrowsCounted(r, address) ==
  /\ Arrives(r)
  /\ IF variant = "main" THEN address = NoValue ELSE validateAddress(address)
  /\ dailyClaims' = MapSet(dailyClaims, <<ToLowerCase(address), DateString(DateNow)>>,
                           [count |-> UserClaims(dailyClaims, address, DateNow).count + 1,
                            lastClaim |-> DateNow])
  /\ FinishWith(r, [reqs[r] EXCEPT !.route = IF variant = "main" THEN "claim" ELSE "eth",
                                   !.address = address, !.startedAt = NowSecs],
                Reply(500, "Internal Server Error", <<>>))
  /\ UNCHANGED <<variant, clock, ticks, chainVars, claimHistory, tokenRegistry, elig, adminVars,
                 otherVars>>

\* the handler throws outside the executor and its catch answers 500: the
\* main route destructures a request that has no body; the serverless route
\* fails to import or construct its blockchain service (new ethers.Wallet
\* throws on an unusable PRIVATE_KEY) after the address was validated
ClaimThrows(r, address) ==
  /\ Arrives(r)
  /\ IF variant = "main" THEN address = NoValue ELSE validateAddress(address)
  /\ FinishWith(r, [reqs[r] EXCEPT !.route = IF variant = "main" THEN "claim" ELSE "eth",
                                   !.address = address, !.startedAt = NowSecs],
                Reply(500, "Internal Server Error", <<>>))
  /\ UNCHANGED <<variant, clock, ticks, chainVars, localVars, elig, adminVars, otherVars>>

----------------------------------------------------------------------------
(* Serverless server: POST /faucet/claim/eth and /faucet/claim/token       *)
(* (api/server.ts) over ServerlessBlockchainService                        *)

ServerlessRoutes == {"eth", "token"}

\* the handler up to its first blockchain call: its answer, or NoValue
ServerlessPrecheck(route, address, tokenAddress, registry) ==
  IF route = "eth"
  THEN IF ~validateAddress(address)
       THEN Some(Reply(400, "Invalid Ethereum address format", <<>>))
       ELSE NoValue
  ELSE IF tokenAddress = NoToken
       THEN Some(Reply(400, "Address and tokenAddress are required", <<>>))
       ELSE IF ~validateAddress(address) \/ ~validateAddress(tokenAddress)
       THEN Some(Reply(400, "Invalid address format", <<>>))
       ELSE IF ServerlessGetToken(registry, tokenAddress) = NoValue
       THEN Some(Reply(400, "Token not supported", <<>>))
       ELSE NoValue

ServerlessStart(r, route, address, tokenAddress) ==
  /\ variant = "serverless"
  /\ Arrives(r)
  /\ route = "eth" => tokenAddress = NoToken
  /\ LET answer == ServerlessPrecheck(route, address, tokenAddress, tokenRegistry)
         req == [reqs[r] EXCEPT
                   !.route = route, !.address = address, !.tokenAddress = tokenAddress,
                   !.startedAt = NowSecs,
                   !.lastAtStart = LastClaimOf(address, tokenAddress),
                   !.blacklistedAtStart = validateAddress(address) /\ Acct(address) \in blacklisted]
     IN IF answer # NoValue
        THEN FinishWith(r, req, answer[1])
        ELSE Continue(r,
               [req EXCEPT
                  !.pc = "elig",
                  !.tokenInfo = IF route = "token"
                                THEN ServerlessGetToken(tokenRegistry, tokenAddress)
                                ELSE NoValue])
  /\ UNCHANGED <<variant, clock, ticks, chainVars, localVars, elig, adminVars, otherVars>>

\* the eligibility check a serverless request makes now; readOk is FALSE
\* when a contract call of the check throws
ServerlessEligibility(q, readOk) ==
  IF q.route = "eth"
  THEN ServerlessCanClaimEth(readOk, lastEthClaimTime[Acct(q.address)], NowSecs)
  ELSE ServerlessCanClaimToken(readOk, LastTokenClaim(q.address, q.tokenAddress),
                               supportedTokens(q.tokenAddress), NowSecs)

\* the contract reads of canClaimEth / canClaimToken; when one throws it is
\* the first
ServerlessEligCalls(route, readOk) ==
  IF route = "eth"
  THEN IF readOk THEN CallsOk(<<"lastEthClaimTime">>) ELSE CallsFailing(<<"lastEthClaimTime">>)
  ELSE IF readOk THEN CallsOk(<<"lastClaimTime", "supportedTokens">>)
       ELSE CallsFailing(<<"lastClaimTime">>)

\* the route's own canClaimEth / canClaimToken call: 429 when not eligible
ServerlessElig(r, readOk) ==
  /\ variant = "serverless"
  /\ reqs[r].pc = "elig"
  /\ LET canClaim == ServerlessEligibility(reqs[r], readOk)
         called == [reqs[r] EXCEPT !.calls = @ \o ServerlessEligCalls(reqs[r].route, readOk)]
     IN IF ~canClaim.canClaim
        THEN FinishWith(r, [called EXCEPT !.readFailed = ~readOk],
                        [Reply(429, "Cooldown active", <<>>)
                           EXCEPT !.remainingTime = canClaim.remainingTime])
        ELSE Continue(r, [called EXCEPT !.pc = "exec"])
  /\ UNCHANGED <<variant, clock, ticks, chainVars, localVars, started, elig, adminVars, otherVars>>

\* ServerlessBlockchainService.claimEth / claimToken up to the transaction:
\* the error of the result it returns, or NoValue
ServerlessClaimChecks(route, address, tokenAddress, fail, isBl, tokenInfo, canClaim) ==
  IF route = "eth" /\ ~isAddress(address) THEN Some(<<"Invalid recipient address">>)
  ELSE IF route = "token" /\ (~isAddress(address) \/ ~isAddress(tokenAddress))
  THEN Some(<<"Invalid address provided">>)
  ELSE IF fail = "blacklisted" THEN Some(<<"call failed">>)
  ELSE IF isBl THEN Some(<<"Address is blacklisted">>)
  ELSE IF route = "token" /\ fail = "supportedTokens" THEN Some(<<"call failed">>)
  ELSE IF route = "token" /\ ~tokenInfo.active THEN Some(<<"Token not supported">>)
  ELSE IF ~canClaim.canClaim THEN Some(<<"Cooldown active">>)
  ELSE NoValue

\* the contract reads claimEth / claimToken make up to the transaction
ServerlessClaimCalls(route, address, tokenAddress, fail, isBl, tokenInfo) ==
  IF route = "eth" /\ ~isAddress(address) THEN <<>>
  ELSE IF route = "token" /\ (~isAddress(address) \/ ~isAddress(tokenAddress)) THEN <<>>
  ELSE IF fail = "blacklisted" THEN CallsFailing(<<"blacklisted">>)
  ELSE IF isBl THEN CallsOk(<<"blacklisted">>)
  ELSE IF route = "eth"
  THEN CallsOk(<<"blacklisted">>) \o ServerlessEligCalls(route, fail # "lastClaim")
  ELSE IF fail = "supportedTokens" THEN CallsFailing(<<"blacklisted", "supportedTokens">>)
  ELSE IF ~tokenInfo.active THEN CallsOk(<<"blacklisted", "supportedTokens">>)
  ELSE CallsOk(<<"blacklisted", "supportedTokens">>)
         \o ServerlessEligCalls(route, fail # "lastClaim")

ServerlessExecReads(r, fail) ==
  /\ variant = "serverless"
  /\ reqs[r].pc = "exec"
  /\ LET q == reqs[r]
         isBl == Acct(q.address) \in blacklisted
         last == IF q.route = "eth" THEN lastEthClaimTime[Acct(q.address)]
                 ELSE LastTokenClaim(q.address, q.tokenAddress)
         canClaim == ServerlessEligibility(q, fail # "lastClaim")
         error == ServerlessClaimChecks(q.route, q.address, q.tokenAddress, fail, isBl,
                                        supportedTokens(q.tokenAddress), canClaim)
         read == [q EXCEPT
                    !.isBlacklisted = IF fail = "blacklisted" THEN NoValue ELSE Some(isBl),
                    !.lastRead = IF error = NoValue THEN Some(last) ELSE NoValue,
                    !.checkedAt = IF error = NoValue THEN Some(NowSecs) ELSE NoValue,
                    !.readFailed = \/ error # NoValue /\ error[1] = <<"call failed">>
                                   \/ /\ fail = "lastClaim"
                                      /\ error # NoValue /\ error[1] = <<"Cooldown active">>,
                    !.calls = q.calls \o ServerlessClaimCalls(q.route, q.address, q.tokenAddress,
                                                              fail, isBl,
                                                              supportedTokens(q.tokenAddress))]
     IN /\ q.route = "eth" => fail # "supportedTokens"
        /\ IF error # NoValue
           THEN FinishWith(r, read, Reply(400, "claim failed", error[1]))
           ELSE Continue(r, [read EXCEPT !.pc = "submit"])
  /\ UNCHANGED <<variant, clock, ticks, chainVars, localVars, started, elig, adminVars, otherVars>>

\* the contract function a serverless claim sends
ServerlessClaimFor(route) == IF route = "eth" THEN "claimEthFor" ELSE "claimTokenFor"

\* the claimEthFor / claimTokenFor transaction
ServerlessSubmit(r, sent) ==
  /\ variant = "serverless"
  /\ reqs[r].pc = "submit"
  /\ LET q == reqs[r]
     IN IF sent
        THEN /\ txs' = Append(txs, NewTx(q.address, OrZero(q.tokenAddress), NoValue))
             /\ Continue(r, [q EXCEPT !.pc = "wait", !.tx = Some(NextHash),
                                      !.calls = @ \o CallsOk(<<ServerlessClaimFor(q.route)>>)])
        ELSE /\ FinishWith(r, [q EXCEPT !.calls = @ \o CallsFailing(<<ServerlessClaimFor(q.route)>>)],
                           Reply(400, "claim failed", <<"send failed">>))
             /\ UNCHANGED txs
  /\ UNCHANGED <<variant, clock, ticks, blacklisted, lastEthClaimTime, lastClaimTime,
                 tokenActive, localVars, started, elig, adminVars, otherVars>>

\* ethAmount() of the contract, formatted; '0.1' is also the fallback of
\* ServerlessBlockchainService.getEthAmount
ChainEthAmount == "0.1"

\* the history entry the serverless routes append
ServerlessRecord(q, txHash) ==
  [timestamp |-> DateNow, tokenAddress |-> OrZero(q.tokenAddress),
   amount |-> IF q.route = "eth" THEN ChainEthAmount ELSE q.tokenInfo[1].amount,
   txHash |-> txHash, type |-> IF q.route = "eth" THEN "ETH" ELSE "TOKEN"]

\* tx.wait() returns: the executor answers success with tx.hash, the route
\* appends the claim to the history and answers
ServerlessConfirmed(r) ==
  /\ variant = "serverless"
  /\ reqs[r].pc = "wait"
  /\ LET q == reqs[r]
         h == q.tx[1]
     IN /\ Mined(h)
        /\ claimHistory' = addClaim(claimHistory, q.address, ServerlessRecord(q, h))
        /\ FinishWith(r, [q EXCEPT !.calls = @ \o CallsOk(<<"wait">>)],
                      [Reply(200, "", <<>>) EXCEPT
                         !.txHash = Some(h),
                         !.symbol = IF q.route = "eth" THEN "ETH" ELSE q.tokenInfo[1].symbol,
                         !.amount = ServerlessRecord(q, h).amount])
  /\ UNCHANGED <<variant, clock, ticks, blacklisted, tokenActive, dailyClaims,
                 tokenRegistry, started, elig, adminVars, otherVars>>

\* tx.wait() throws: the executor's catch answers success: false
ServerlessNotConfirmed(r) ==
  /\ variant = "serverless"
  /\ reqs[r].pc = "wait"
  /\ Reverted(reqs[r].tx[1])
  /\ FinishWith(r, [reqs[r] EXCEPT !.calls = @ \o CallsFailing(<<"wait">>)],
                Reply(400, "claim failed", <<"transaction execution reverted">>))
  /\ UNCHANGED <<variant, clock, ticks, blacklisted, tokenActive, localVars, started, elig, adminVars, otherVars>>

----------------------------------------------------------------------------

Next ==
  \/ Tick
  \/ Blacklist
  \/ DeactivateToken
  \/ \E r \in Requests, a \in AddressInputs, t \in TokenInputs : ClaimStart(r, a, t)
  \/ \E r \in Requests, f \in ReadFailures : ClaimExecReads(r, f)
  \/ \E r \in Requests, o \in SubmitOutcomes : ClaimSubmit(r, o)
  \/ \E r \in Requests : ClaimConfirmed(r)
  \/ \E r \in Requests : ClaimNotConfirmed(r)
  \/ \E r \in Requests, a \in AddressInputs \cup {NoValue} : ClaimThrows(r, a)
  \/ \E r \in Requests, k \in ServerlessRoutes, a \in AddressInputs, t \in TokenInputs :
       ServerlessStart(r, k, a, t)
  \/ \E r \in Requests, ok \in BOOLEAN : ServerlessElig(r, ok)
  \/ \E r \in Requests, f \in ReadFailures : ServerlessExecReads(r, f)
  \/ \E r \in Requests, sent \in BOOLEAN : ServerlessSubmit(r, sent)
  \/ \E r \in Requests : ServerlessConfirmed(r)
  \/ \E r \in Requests : ServerlessNotConfirmed(r)

Spec == Init /\ [][Next]_vars

----------------------------------------------------------------------------
(* The eligibility checkers on their own: each action runs one checker in  *)
(* a world drawn from bounded sets (the account's blacklist flag, the      *)
(* token's supportedTokens tuple, the last-claim timestamp, the clock) and *)
(* records the world and the result.  A checker of BlockchainService       *)
(* throws when a contract read throws: it then has no result.              *)

\* a present-day clock, seconds since the epoch
EligEpoch == 1700000000
\* a token cooldown longer than the time since the epoch
LongCooldown == 2000000000

EligLastClaims == {0, EligEpoch}
EligNows ==
  {EligEpoch + d : d \in {0, 1, TokenCooldownSecs - 1, TokenCooldownSecs,
                          CooldownPeriodEth - 1, CooldownPeriodEth, CooldownPeriodEth + 1}}
EligCooldowns == {0, TokenCooldownSecs, CooldownPeriodEth, LongCooldown}

World(impl, fn, isBl, active, cooldown, last, now, readOk, result) ==
  [impl |-> impl, fn |-> fn, isBlacklisted |-> isBl, active |-> active,
   cooldown |-> cooldown, lastClaimTime |-> last, now |-> now, readOk |-> readOk,
   result |-> result]

CheckCanClaimEth(isBl, last, now, readOk) ==
  /\ elig' = World("BlockchainService", "canClaimEth", isBl, TRUE, CooldownPeriodEth, last, now,
                   readOk, IF readOk THEN Some(canClaimEth(isBl, last, now)) ELSE NoValue)
  /\ UNCHANGED <<variant, clock, ticks, chainVars, localVars, reqVars, adminVars, otherVars>>

CheckCanClaimToken(isBl, active, cooldown, last, now, readOk) ==
  /\ elig' = World("BlockchainService", "canClaimToken", isBl, active, cooldown, last, now,
                   readOk,
                   IF readOk
                   THEN Some(canClaimToken(isBl, [cooldown |-> cooldown, active |-> active],
                                           last, now))
                   ELSE NoValue)
  /\ UNCHANGED <<variant, clock, ticks, chainVars, localVars, reqVars, adminVars, otherVars>>

ServerlessCheckCanClaimEth(isBl, last, now, readOk) ==
  /\ elig' = World("ServerlessBlockchainService", "canClaimEth", isBl, TRUE, CooldownPeriodEth,
                   last, now, readOk, Some(ServerlessCanClaimEth(readOk, last, now)))
  /\ UNCHANGED <<variant, clock, ticks, chainVars, localVars, reqVars, adminVars, otherVars>>

ServerlessCheckCanClaimToken(isBl, active, cooldown, last, now, readOk) ==
  /\ elig' = World("ServerlessBlockchainService", "canClaimToken", isBl, active, cooldown,
                   last, now, readOk,
                   Some(ServerlessCanClaimToken(readOk, last,
                                                [cooldown |-> cooldown, active |-> active], now)))
  /\ UNCHANGED <<variant, clock, ticks, chainVars, localVars, reqVars, adminVars, otherVars>>

NextElig ==
  \/ \E isBl \in BOOLEAN, last \in EligLastClaims, now \in EligNows, readOk \in BOOLEAN :
       CheckCanClaimEth(isBl, last, now, readOk)
  \/ \E isBl \in BOOLEAN, active \in BOOLEAN, cooldown \in EligCooldowns,
        last \in EligLastClaims, now \in EligNows, readOk \in BOOLEAN :
       CheckCanClaimToken(isBl, active, cooldown, last, now, readOk)
  \/ \E isBl \in BOOLEAN, last \in EligLastClaims, now \in EligNows, readOk \in BOOLEAN :
       ServerlessCheckCanClaimEth(isBl, last, now, readOk)
  \/ \E isBl \in BOOLEAN, active \in BOOLEAN, cooldown \in EligCooldowns,
        last \in EligLastClaims, now \in EligNows, readOk \in BOOLEAN :
       ServerlessCheckCanClaimToken(isBl, active, cooldown, last, now, readOk)

SpecElig == Init /\ [][NextElig]_vars

----------------------------------------------------------------------------
(* The auth routes, the admin routes and the token list.  Each action is   *)
(* one request from its arrival to its answer: the global preHandler       *)
(* (authMiddleware), the admin plugin's preHandler, and the route handler. *)
(* None of them awaits anything but a contract read, so a request is one   *)
(* step.  The serverless server has the token list only.                   *)

\* config.faucet.adminAddress, a checksummed address
adminAddress == AddrAMixed

\* expiresIn of a session token, '24h', in seconds
JwtExpiresIn == 86400
\* lifetime of a nonce, 5 minutes, in milliseconds
NonceLifetime == 300000

\* the wallets that sign in: the admin's address in lower case, another
\* account, and a string that is no address
WalletInputs == {AddrA, AddrB, BadAddr}
\* the wallets that can sign a message
Signers == {AddrA, AddrB}
\* an address whose key no wallet here holds
Stranger == <<"e", "9">>

\* the nonce field of a verify body: left out, or one of the nonces generated
NoNonce == 0
NonceInputs == 0..MaxNonces

\* the signature field of a verify body: left out, a string that is no
\* signature, or a wallet's signature of the message that carries a nonce
NoSignature == [kind |-> "none", signer |-> <<>>, nonce |-> NoNonce]
Malformed == [kind |-> "malformed", signer |-> <<>>, nonce |-> NoNonce]
Signed(signer, nonce) == [kind |-> "signed", signer |-> signer, nonce |-> nonce]
Signatures ==
  {NoSignature, Malformed} \cup {Signed(w, n) : w \in Signers, n \in 1..MaxNonces}

\* ethers.verifyMessage(message, signature): the signer when the signature
\* is of this message, an unrelated address when it is of another one
verifyMessage(nonce, signature) ==
  IF signature.nonce = nonce THEN signature.signer ELSE Stranger
\* the admin's wallet, as the admin types its address
AdminWallet == AddrA

\* isAdmin comparing the strings as given
isAdminAsGiven(address) == address = adminAddress

\* middleware/auth.ts isAdmin
isAdmin(address) == ToLowerCase(address) = ToLowerCase(adminAddress)

\* middleware/auth.ts generateToken: the payload jwt.sign signs now
generateToken(address, userIsAdmin) ==
  [address |-> address, isAdmin |-> userIsAdmin, iat |-> NowSecs, exp |-> NowSecs + JwtExpiresIn]

\* Authorization headers: none, a Bearer token this server did not sign,
\* and a Bearer token it signed
NoHeader == [kind |-> "none", payload |-> NoValue]
Forged == [kind |-> "forged", payload |-> Some([address |-> adminAddress, isAdmin |-> TRUE,
                                               iat |-> StartClock, exp |-> StartClock + 2 * JwtExpiresIn])]
Bearer(payload) == [kind |-> "signed", payload |-> Some(payload)]
Credentials == {NoHeader, Forged} \cup {Bearer(p) : p \in issued}

\* jwt.verify: the payload of a token signed here and not expired, or the
\* error thrown
jwtVerify(credential) ==
  IF credential.kind = "forged" THEN [ok |-> FALSE, error |-> "Invalid token"]
  ELSE IF NowSecs >= credential.payload[1].exp THEN [ok |-> FALSE, error |-> "Token expired"]
  ELSE [ok |-> TRUE, user |-> credential.payload[1]]

\* an answer on these routes
SurfaceReply(route, credential, status, error, handled) ==
  [route |-> route, credential |-> credential, status |-> status,
   error |-> error, handled |-> handled, tokens |-> NoValue, body |-> NoValue,
   claims |-> NoValue]

\* authMiddleware and the admin plugin's preHandler on an admin route: the
\* answer that ends the request, or NoValue when the handler runs
AdminGate(route, credential) ==
  IF credential.kind = "none"
  THEN Some(SurfaceReply(route, credential, 401, "Missing or invalid authorization header", FALSE))
  ELSE LET v == jwtVerify(credential)
       IN IF ~v.ok THEN Some(SurfaceReply(route, credential, 401, v.error, FALSE))
          ELSE IF ~v.user.isAdmin
          THEN Some(SurfaceReply(route, credential, 403, "Admin privileges required", FALSE))
          ELSE NoValue

\* the handler's answer
Handled(route, credential, status, error) == SurfaceReply(route, credential, status, error, TRUE)

\* a request arrives on these routes of the main server
SurfaceArrives == variant = "main"

claimVars == <<variant, clock, ticks, chainVars, localVars, reqVars, elig, otherVars>>

\* the body of a request on the auth routes
AuthBody(address, nonce, signature) ==
  Some([address |-> address, nonce |-> nonce, signature |-> signature])

\* POST /auth/nonce: crypto.randomBytes gives a value no earlier nonce has;
\* the nonces are numbered as they are generated
AuthNonce(address) ==
  /\ SurfaceArrives
  /\ IF ~isAddress(address)
     THEN /\ surface' = [Handled("POST /auth/nonce", NoHeader, 400, "Invalid Address") EXCEPT
                           !.body = AuthBody(address, NoNonce, NoSignature)]
          /\ UNCHANGED <<nonces, nonceCount>>
     ELSE /\ nonceCount < MaxNonces
          /\ nonceCount' = nonceCount + 1
          /\ nonces' = MapSet(nonces, ToLowerCase(address),
                              [nonce |-> nonceCount + 1, timestamp |-> DateNow])
          /\ surface' = [Handled("POST /auth/nonce", NoHeader, 200, "") EXCEPT
                           !.body = AuthBody(address, nonceCount + 1, NoSignature)]
  /\ UNCHANGED <<claimVars, adminTokenRegistry, adminState, issued, redeemed, removed, atPause>>

\* Map.delete(key)
MapDelete(map, key) == [k \in DOMAIN map \ {key} |-> map[k]]

\* the answer of POST /auth/verify to a request body
VerifyReply(address, nonce, signature, status, error) ==
  [Handled("POST /auth/verify", NoHeader, status, error) EXCEPT
     !.body = AuthBody(address, nonce, signature)]

\* POST /auth/verify that leaves a redeemed nonce in the map
AuthVerifyKeepingNonce(address, nonce, signature) ==
  /\ SurfaceArrives
  /\ LET key == ToLowerCase(address)
     IN /\ isAddress(address) /\ signature # NoSignature /\ nonce # NoNonce
        /\ key \in DOMAIN nonces /\ nonces[key].nonce = nonce
        /\ DateNow - nonces[key].timestamp <= NonceLifetime
        /\ signature # Malformed
        /\ ToLowerCase(verifyMessage(nonce, signature)) = key
        /\ redeemed[nonce] < MaxSessions
        /\ issued' = issued \cup {generateToken(address, isAdmin(address))}
        /\ redeemed' = [redeemed EXCEPT ![nonce] = @ + 1]
        /\ surface' = VerifyReply(address, nonce, signature, 200, "")
  /\ UNCHANGED <<claimVars, adminTokenRegistry, adminState, nonces, nonceCount, removed, atPause>>

\* POST /auth/verify that does not look at the age of the nonce
AuthVerifyAnyAge(address, nonce, signature) ==
  /\ SurfaceArrives
  /\ LET key == ToLowerCase(address)
     IN /\ isAddress(address) /\ signature # NoSignature /\ nonce # NoNonce
        /\ key \in DOMAIN nonces /\ nonces[key].nonce = nonce
        /\ signature # Malformed
        /\ ToLowerCase(verifyMessage(nonce, signature)) = key
        /\ Cardinality(issued \cup {generateToken(address, isAdmin(address))}) <= MaxSessions
        /\ nonces' = MapDelete(nonces, key)
        /\ issued' = issued \cup {generateToken(address, isAdmin(address))}
        /\ redeemed' = [redeemed EXCEPT ![nonce] = @ + 1]
        /\ surface' = VerifyReply(address, nonce, signature, 200, "")
  /\ UNCHANGED <<claimVars, adminTokenRegistry, adminState, nonceCount, removed, atPause>>

\* POST /auth/verify.  Between reading the stored nonce and deleting it the
\* handler awaits nothing, so the request is one step.
AuthVerify(address, nonce, signature) ==
  /\ SurfaceArrives
  /\ LET key == ToLowerCase(address)
     IN IF ~isAddress(address)
        THEN /\ surface' = VerifyReply(address, nonce, signature, 400, "Invalid Address")
             /\ UNCHANGED <<nonces, issued, redeemed>>
        ELSE IF signature = NoSignature \/ nonce = NoNonce
        THEN /\ surface' = VerifyReply(address, nonce, signature, 400, "Missing Data")
             /\ UNCHANGED <<nonces, issued, redeemed>>
        ELSE IF key \notin DOMAIN nonces \/ nonces[key].nonce # nonce
        THEN /\ surface' = VerifyReply(address, nonce, signature, 400, "Invalid Nonce")
             /\ UNCHANGED <<nonces, issued, redeemed>>
        ELSE IF DateNow - nonces[key].timestamp > NonceLifetime
        THEN /\ nonces' = MapDelete(nonces, key)
             /\ surface' = VerifyReply(address, nonce, signature, 400, "Expired Nonce")
             /\ UNCHANGED <<issued, redeemed>>
        ELSE IF signature = Malformed
        THEN /\ surface' = VerifyReply(address, nonce, signature, 500, "Internal Server Error")
             /\ UNCHANGED <<nonces, issued, redeemed>>
        ELSE IF ToLowerCase(verifyMessage(nonce, signature)) # key
        THEN /\ surface' = VerifyReply(address, nonce, signature, 400, "Invalid Signature")
             /\ UNCHANGED <<nonces, issued, redeemed>>
        ELSE /\ Cardinality(issued \cup {generateToken(address, isAdmin(address))}) <= MaxSessions
             /\ nonces' = MapDelete(nonces, key)
             /\ issued' = issued \cup {generateToken(address, isAdmin(address))}
             /\ redeemed' = [redeemed EXCEPT ![nonce] = @ + 1]
             /\ surface' = VerifyReply(address, nonce, signature, 200, "")
  /\ UNCHANGED <<claimVars, adminTokenRegistry, adminState, nonceCount, removed, atPause>>

\* the timer that drops expired nonces
NonceCleanup ==
  /\ variant = "main"
  /\ \E k \in DOMAIN nonces : DateNow - nonces[k].timestamp > NonceLifetime
  /\ nonces' = [k \in {j \in DOMAIN nonces : DateNow - nonces[j].timestamp <= NonceLifetime}
                  |-> nonces[k]]
  /\ UNCHANGED <<claimVars, adminTokenRegistry, adminState, issued, nonceCount, redeemed,
                 surface, removed, atPause>>

\* request inputs of the token routes: a token of the token list and a
\* string that is no address
AdminTokenInputs == {TokUsdt, BadAddr}
\* amounts of a request body: none, zero, and a positive number
AmountInputs == {"", "0", "100"}
\* parseFloat(amount) > 0
PositiveAmount(amount) == amount \in {"100"}

\* an admin request the gate turns away
AdminRefused(route, credential) ==
  /\ SurfaceArrives
  /\ AdminGate(route, credential) # NoValue
  /\ surface' = AdminGate(route, credential)[1]
  /\ UNCHANGED <<claimVars, adminTokenRegistry, adminState, authVars, removed, atPause>>

\* an admin request reaches its handler; user is request.user
AdminAdmitted(route, credential) ==
  /\ SurfaceArrives
  /\ AdminGate(route, credential) = NoValue

\* POST /admin/tokens/add
AdminAddToken(credential, address, amount) ==
  LET route == "POST /admin/tokens/add"
      key == ToLowerCase(address)
  IN \/ AdminRefused(route, credential)
     \/ /\ AdminAdmitted(route, credential)
        /\ IF ~isAddress(address)
           THEN /\ surface' = Handled(route, credential, 400, "Invalid Address")
                /\ UNCHANGED <<adminTokenRegistry, removed>>
           ELSE IF amount = ""
           THEN /\ surface' = Handled(route, credential, 400, "Missing Data")
                /\ UNCHANGED <<adminTokenRegistry, removed>>
           ELSE IF key \in DOMAIN adminTokenRegistry
           THEN /\ surface' = Handled(route, credential, 409, "Token Exists")
                /\ UNCHANGED <<adminTokenRegistry, removed>>
           ELSE IF ~PositiveAmount(amount)
           THEN /\ surface' = Handled(route, credential, 400, "Invalid Amount")
                /\ UNCHANGED <<adminTokenRegistry, removed>>
           ELSE /\ adminTokenRegistry' =
                     MapSet(adminTokenRegistry, key,
                            [amount |-> amount, addedBy |-> jwtVerify(credential).user.address])
                /\ removed' = removed \ {key}
                /\ surface' = Handled(route, credential, 200, "")
        /\ UNCHANGED <<claimVars, adminState, authVars, atPause>>

\* PUT /admin/tokens/:id
AdminUpdateToken(credential, id, amount) ==
  LET route == "PUT /admin/tokens/:id"
      key == ToLowerCase(id)
  IN \/ AdminRefused(route, credential)
     \/ /\ AdminAdmitted(route, credential)
        /\ IF key \notin DOMAIN adminTokenRegistry
           THEN /\ surface' = Handled(route, credential, 404, "Token Not Found")
                /\ UNCHANGED adminTokenRegistry
           ELSE /\ adminTokenRegistry' =
                     [adminTokenRegistry EXCEPT
                        ![key].amount = IF amount = "" THEN @ ELSE amount]
                /\ surface' = Handled(route, credential, 200, "")
        /\ UNCHANGED <<claimVars, adminState, authVars, removed, atPause>>

\* DELETE /admin/tokens/:address
AdminRemoveToken(credential, address) ==
  LET route == "DELETE /admin/tokens/:address"
      tokenKey == ToLowerCase(address)
  IN \/ AdminRefused(route, credential)
     \/ /\ AdminAdmitted(route, credential)
        /\ IF ~isAddress(address)
           THEN /\ surface' = Handled(route, credential, 400, "Invalid Address")
                /\ UNCHANGED <<adminTokenRegistry, removed>>
           ELSE IF tokenKey \notin DOMAIN adminTokenRegistry
           THEN /\ surface' = Handled(route, credential, 404, "Token Not Found")
                /\ UNCHANGED <<adminTokenRegistry, removed>>
           ELSE /\ adminTokenRegistry' = MapDelete(adminTokenRegistry, tokenKey)
                /\ removed' = removed \cup {tokenKey}
                /\ surface' = Handled(route, credential, 200, "")
        /\ UNCHANGED <<claimVars, adminState, authVars, atPause>>

\* DELETE /admin/tokens (bulk): every listed address that is registered goes,
\* the others are reported in the answer
AdminBulkRemove(credential, addresses) ==
  LET route == "DELETE /admin/tokens"
      gone == {ToLowerCase(a) : a \in {b \in addresses : isAddress(b)}}
                \cap DOMAIN adminTokenRegistry
  IN \/ AdminRefused(route, credential)
     \/ /\ AdminAdmitted(route, credential)
        /\ adminTokenRegistry' = [k \in DOMAIN adminTokenRegistry \ gone |-> adminTokenRegistry[k]]
        /\ removed' = removed \cup gone
        /\ surface' = Handled(route, credential, 200, "")
        /\ UNCHANGED <<claimVars, adminState, authVars, atPause>>

\* the bodies of a pause request: none, one without a reason, one with a
\* reason
PauseBodies == {NoValue, Some([reason |-> NoValue]), Some([reason |-> Some("Upgrade")])}

\* const { reason = 'Maintenance' } = request.body
ReasonOf(body) == IF body[1].reason = NoValue THEN "Maintenance" ELSE body[1].reason[1]

\* POST /admin/pause; destructuring an absent body throws, the catch answers
\* 500
AdminPause(credential, body) ==
  LET route == "POST /admin/pause"
  IN \/ AdminRefused(route, credential)
     \/ /\ AdminAdmitted(route, credential)
        /\ IF body = NoValue
           THEN /\ surface' = Handled(route, credential, 500, "Internal Server Error")
                /\ UNCHANGED <<adminState, atPause>>
           ELSE IF adminState.isPaused
           THEN /\ surface' = [Handled(route, credential, 400, "Already Paused")
                                 EXCEPT !.body = body]
                /\ UNCHANGED <<adminState, atPause>>
           ELSE /\ adminState' = [isPaused |-> TRUE, pauseReason |-> ReasonOf(body),
                                  pausedAt |-> DateNow,
                                  pausedBy |-> jwtVerify(credential).user.address]
                /\ atPause' = [txs |-> Len(txs),
                                idle |-> \A r \in Requests : reqs[r].pc = "idle"]
                /\ surface' = [Handled(route, credential, 200, "") EXCEPT !.body = body]
        /\ UNCHANGED <<claimVars, adminTokenRegistry, authVars, removed>>

\* POST /admin/unpause that leaves pausedBy as it is
AdminUnpauseKeepingBy(credential) ==
  LET route == "POST /admin/unpause"
  IN \/ AdminRefused(route, credential)
     \/ /\ AdminAdmitted(route, credential)
        /\ IF ~adminState.isPaused
           THEN /\ surface' = Handled(route, credential, 400, "Not Paused")
                /\ UNCHANGED adminState
           ELSE /\ adminState' = [NotPaused EXCEPT !.pausedBy = adminState.pausedBy]
                /\ surface' = Handled(route, credential, 200, "")
        /\ UNCHANGED <<claimVars, adminTokenRegistry, authVars, removed, atPause>>

\* POST /admin/unpause
AdminUnpause(credential) ==
  LET route == "POST /admin/unpause"
  IN \/ AdminRefused(route, credential)
     \/ /\ AdminAdmitted(route, credential)
        /\ IF ~adminState.isPaused
           THEN /\ surface' = Handled(route, credential, 400, "Not Paused")
                /\ UNCHANGED adminState
           ELSE /\ adminState' = NotPaused
                /\ surface' = Handled(route, credential, 200, "")
        /\ UNCHANGED <<claimVars, adminTokenRegistry, authVars, removed, atPause>>

\* POST /admin/test-connection with type 'rpc': one read of the contract
\* (getEthAmount), which returns or throws
AdminTestConnection(credential, rpcOk) ==
  LET route == "POST /admin/test-connection"
  IN \/ AdminRefused(route, credential)
     \/ /\ AdminAdmitted(route, credential)
        /\ surface' = IF rpcOk THEN Handled(route, credential, 200, "")
                      ELSE Handled(route, credential, 500, "RPC Connection Failed")
        /\ UNCHANGED <<claimVars, adminTokenRegistry, adminState, authVars, removed,
                       atPause>>

\* a reading route that sends a transaction to the contract
AdminReadsSending(credential, route) ==
  \/ AdminRefused(route, credential)
  \/ /\ AdminAdmitted(route, credential)
     /\ txs' = Append(txs, NewTx(adminAddress, ZeroAddress, NoValue))
     /\ surface' = Handled(route, credential, 200, "")
     /\ UNCHANGED <<variant, clock, ticks, blacklisted, lastEthClaimTime, lastClaimTime,
                    tokenActive, localVars, reqVars, elig, otherVars, adminTokenRegistry, adminState,
                    authVars, removed, atPause>>

\* the admin routes that only read: the stats of the pause state, the claims
\* of the claim history (also as statistics and as CSV), the configuration
\* (PUT /admin/config saves nothing)
AdminReadRoutes == {"GET /admin/stats", "GET /admin/claims", "PUT /admin/config"}

AdminReads(credential, route) ==
  \/ AdminRefused(route, credential)
  \/ /\ AdminAdmitted(route, credential)
     /\ surface' = Handled(route, credential, 200, "")
     /\ UNCHANGED <<claimVars, adminTokenRegistry, adminState, authVars, removed,
                    atPause>>

\* a token of a token list
Listed(address, symbol, amount) == [address |-> address, symbol |-> symbol, amount |-> amount]

\* the object GET /faucet/tokens of the main server is written out as (of its
\* seven tokens the three the registry above holds)
FaucetTokens ==
  {Listed(ZeroAddress, "ETH", "0.1"), Listed(TokUsdt, "USDT", "100"),
   Listed(TokUni, "UNI", "10")}

\* ServerlessClaimDataService.getAllTokens
getAllTokens(registry) ==
  {Listed(k, registry[k].symbol, registry[k].amount) : k \in DOMAIN registry}

\* GET /faucet/tokens, a public route
GetTokens ==
  /\ surface' = [SurfaceReply("GET /faucet/tokens", NoHeader, 200, "", TRUE) EXCEPT
                   !.tokens = Some(IF variant = "main" THEN FaucetTokens
                                   ELSE getAllTokens(tokenRegistry))]
  /\ UNCHANGED <<claimVars, adminTokenRegistry, adminState, authVars, removed, atPause>>

\* the claim requests made next to the admin requests: ETH claims of one
\* account, one at a time, whose contract reads return
AdminClaimant == AddrB
AdminSlot == CHOOSE r \in Requests : \A q \in Requests : r <= q

\* the admin's session token, if the admin has signed in
AdminSessions == {Bearer(p) : p \in {q \in issued : q.isAdmin}}

\* The admin signs in once and manages the faucet while one account claims
\* ETH.
NextAdmin ==
  \/ nonceCount = 0 /\ AuthNonce(AdminWallet)
  \/ \E n \in 1..MaxNonces : AuthVerify(AdminWallet, n, Signed(AdminWallet, n))
  \/ \E c \in AdminSessions, a \in AdminTokenInputs, m \in AmountInputs : AdminAddToken(c, a, m)
  \/ \E c \in AdminSessions, a \in AdminTokenInputs, m \in AmountInputs :
       AdminUpdateToken(c, a, m)
  \/ \E c \in AdminSessions, a \in AdminTokenInputs : AdminRemoveToken(c, a)
  \/ \E c \in AdminSessions, as \in SUBSET AdminTokenInputs : AdminBulkRemove(c, as)
  \/ \E c \in AdminSessions, b \in PauseBodies : AdminPause(c, b)
  \/ \E c \in AdminSessions : AdminUnpause(c)
  \/ \E c \in AdminSessions, ok \in BOOLEAN : AdminTestConnection(c, ok)
  \/ \E c \in AdminSessions, k \in AdminReadRoutes : AdminReads(c, k)
  \/ GetTokens
  \/ ClaimStart(AdminSlot, AdminClaimant, NoToken)
  \/ ClaimExecReads(AdminSlot, "none")
  \/ \E o \in SubmitOutcomes : ClaimSubmit(AdminSlot, o)
  \/ ClaimConfirmed(AdminSlot)
  \/ ClaimNotConfirmed(AdminSlot)

SpecAdmin == Init /\ [][NextAdmin]_vars

\* Wallets sign in, and requests with every kind of Authorization header
\* arrive on the admin routes, while the clock advances.
NextAuth ==
  \/ Tick
  \/ \E a \in WalletInputs : AuthNonce(a)
  \/ \E a \in WalletInputs, n \in 1..MaxNonces : AuthVerify(a, n, Signed(a, n))
  \/ NonceCleanup
  \/ \E c \in Credentials : AdminAddToken(c, TokUsdt, "100")
  \/ \E c \in Credentials : AdminUpdateToken(c, TokUsdt, "100")
  \/ \E c \in Credentials : AdminRemoveToken(c, TokUsdt)
  \/ \E c \in Credentials : AdminBulkRemove(c, {TokUsdt})
  \/ \E c \in Credentials, b \in PauseBodies : AdminPause(c, b)
  \/ \E c \in Credentials : AdminUnpause(c)
  \/ \E c \in Credentials : AdminTestConnection(c, TRUE)
  \/ \E c \in Credentials, k \in AdminReadRoutes : AdminReads(c, k)

SpecAuth == Init /\ [][NextAuth]_vars

----------------------------------------------------------------------------
(* The token registry on its own: tokens are added and looked up under     *)
(* every spelling of their address.                                        *)

\* the addresses tokens are added and looked up under: three tokens, each
\* checksummed and in lower case, and the zero address
LookupInputs ==
  {TokUsdt, ToLowerCase(TokUsdt), TokLink, ToLowerCase(TokLink), TokUni, ToLowerCase(TokUni),
   ZeroAddress}

\* the spellings of an address: the inputs that differ from it in letter
\* case only
Spellings(address) == {b \in LookupInputs : ToLowerCase(b) = ToLowerCase(address)}

\* the token an addToken call registers
AddedToken == [symbol |-> "LINK", amount |-> "10"]

\* ClaimDataService.addToken: the key is used as given
RegistryAddToken(address) ==
  /\ variant = "main"
  /\ tokenRegistry' = MapSet(tokenRegistry, address, AddedToken)
  /\ UNCHANGED <<variant, clock, ticks, chainVars, dailyClaims, claimHistory, reqVars, elig,
                 adminVars, otherVars>>

\* getToken of the process's claim data service
GetTokenOf(registry, address) ==
  IF variant = "main" THEN getToken(registry, address) ELSE ServerlessGetToken(registry, address)

\* getToken is called with an address, and with its other spellings
RegistryLookup(address) ==
  /\ lookup' = [address |-> Some(address),
                results |-> [b \in Spellings(address) |-> GetTokenOf(tokenRegistry, b)]]
  /\ UNCHANGED <<variant, clock, ticks, chainVars, localVars, reqVars, elig, adminVars,
                 handlerVars>>

NextLookup ==
  \/ \E a \in LookupInputs : RegistryAddToken(a)
  \/ \E a \in LookupInputs : RegistryLookup(a)

SpecLookup == Init /\ [][NextLookup]_vars

----------------------------------------------------------------------------
(* The serverless handler (api/[...slug].ts, api/index.ts): a module        *)
(* variable holds the application, created by the first invocation         *)

\* app.inject / app.server.emit('request'): the request goes to application a
Handed(a, ready) == Some([app |-> a, ready |-> a \in ready])

\* an invocation arrives and runs up to its first await: with no application
\* it calls createServerlessApp, otherwise it hands its request to the one
\* there is
HandlerArrives(i) ==
  /\ inv[i].pc = "idle"
  /\ \A j \in Invocations : j < i => inv[j].pc # "idle"
  /\ IF app = NoValue
     THEN /\ created' = created + 1
          /\ inv' = [inv EXCEPT ![i] = [pc |-> "creating", mine |-> Some(created + 1)]]
          /\ UNCHANGED <<app, readyApps, injected>>
     ELSE /\ injected' = Handed(app[1], readyApps)
          /\ inv' = [inv EXCEPT ![i].pc = "done"]
          /\ UNCHANGED <<app, created, readyApps>>
  /\ UNCHANGED <<variant, clock, ticks, chainVars, localVars, reqVars, elig, adminVars, lookup>>

\* createServerlessApp resolves: app = await createServerlessApp(), and the
\* invocation waits for app.ready()
HandlerCreated(i) ==
  /\ inv[i].pc = "creating"
  /\ app' = inv[i].mine
  /\ inv' = [inv EXCEPT ![i].pc = "readying"]
  /\ UNCHANGED <<created, readyApps, injected>>
  /\ UNCHANGED <<variant, clock, ticks, chainVars, localVars, reqVars, elig, adminVars, lookup>>

\* app.ready() resolves and the invocation hands its request to the module's
\* application
HandlerReady(i) ==
  /\ inv[i].pc = "readying"
  /\ readyApps' = readyApps \cup {inv[i].mine[1]}
  /\ injected' = Handed(app[1], readyApps')
  /\ inv' = [inv EXCEPT ![i].pc = "done"]
  /\ UNCHANGED <<app, created>>
  /\ UNCHANGED <<variant, clock, ticks, chainVars, localVars, reqVars, elig, adminVars, lookup>>

\* createServerlessApp or app.ready() rejects: the catch answers 500
HandlerThrows(i) ==
  /\ inv[i].pc \in {"creating", "readying"}
  /\ inv' = [inv EXCEPT ![i].pc = "done"]
  /\ UNCHANGED <<app, created, readyApps, injected>>
  /\ UNCHANGED <<variant, clock, ticks, chainVars, localVars, reqVars, elig, adminVars, lookup>>

NextHandler ==
  \/ \E i \in Invocations : HandlerArrives(i)
  \/ \E i \in Invocations : HandlerCreated(i)
  \/ \E i \in Invocations : HandlerReady(i)
  \/ \E i \in Invocations : HandlerThrows(i)

SpecHandler == Init /\ [][NextHandler]_vars

----------------------------------------------------------------------------
(* The history routes *)

\* Array.prototype.sort((a, b) => b.timestamp - a.timestamp): a stable sort,
\* newest first, done here by inserting each element behind the elements
\* that are not older
RECURSIVE SortNewestFirst(_)
SortNewestFirst(claims) ==
  IF claims = <<>> THEN <<>>
  ELSE LET sorted == SortNewestFirst(SubSeq(claims, 1, Len(claims) - 1))
           last == claims[Len(claims)]
           ahead == Cardinality({i \in DOMAIN sorted : sorted[i].timestamp >= last.timestamp})
       IN SubSeq(sorted, 1, ahead) \o <<last>> \o SubSeq(sorted, ahead + 1, Len(sorted))

\* history.sort(...) on the array getUserClaims returned, which is the array
\* the store holds: the store after the sort
SortedInPlace(history, userKey) ==
  IF userKey \in DOMAIN history
  THEN [history EXCEPT ![userKey] = SortNewestFirst(@)]
  ELSE history

\* ServerlessClaimDataService.formatClaimResponse
formatClaimResponse(claim, registry) ==
  [timestamp |-> claim.timestamp, type |-> claim.type, amount |-> claim.amount,
   txHash |-> claim.txHash,
   token |-> IF claim.type = "TOKEN"
             THEN Some([address |-> claim.tokenAddress,
                        symbol |-> IF ServerlessGetToken(registry, claim.tokenAddress) = NoValue
                                   THEN "UNKNOWN"
                                   ELSE ServerlessGetToken(registry, claim.tokenAddress)[1].symbol])
             ELSE NoValue]

\* the addresses history is asked for
HistoryInputs == {AddrB, BadAddr}

\* the answer of a history route
HistoryReply(credential, address, status, error, handled, claims) ==
  [SurfaceReply("GET /faucet/history/:address", credential, status, error, handled) EXCEPT
     !.body = AuthBody(address, NoNonce, NoSignature), !.claims = claims]

\* GET /faucet/history/:address of the main server, which is not among the
\* public routes: authMiddleware wants a valid token of any wallet
GetHistory(credential, address) ==
  /\ variant = "main"
  /\ LET userKey == ToLowerCase(address)
         v == jwtVerify(credential)
     IN IF credential.kind = "none"
        THEN /\ surface' = HistoryReply(credential, address, 401,
                                        "Missing or invalid authorization header", FALSE, NoValue)
             /\ UNCHANGED claimHistory
        ELSE IF ~v.ok
        THEN /\ surface' = HistoryReply(credential, address, 401, v.error, FALSE, NoValue)
             /\ UNCHANGED claimHistory
        ELSE IF ~isAddress(address)
        THEN /\ surface' = HistoryReply(credential, address, 400, "Invalid Address", TRUE, NoValue)
             /\ UNCHANGED claimHistory
        ELSE /\ claimHistory' = SortedInPlace(claimHistory, userKey)
             /\ surface' = HistoryReply(credential, address, 200, "", TRUE,
                                        Some(SortNewestFirst(MapGet(claimHistory, userKey, <<>>))))
  /\ UNCHANGED <<variant, clock, ticks, chainVars, dailyClaims, tokenRegistry, reqVars, elig, otherVars,
                 adminTokenRegistry, adminState, authVars, removed, atPause>>

\* GET /faucet/history/:address of the serverless server
ServerlessGetHistory(address) ==
  /\ variant = "serverless"
  /\ LET claims == MapGet(claimHistory, ToLowerCase(address), <<>>)
     IN surface' =
          IF ~validateAddress(address)
          THEN HistoryReply(NoHeader, address, 400, "Invalid address format", TRUE, NoValue)
          ELSE HistoryReply(NoHeader, address, 200, "", TRUE,
                            Some([i \in DOMAIN claims |->
                                    formatClaimResponse(claims[i], tokenRegistry)]))
  /\ UNCHANGED <<claimVars, adminTokenRegistry, adminState, authVars, removed, atPause>>

\* GET /faucet/stats of either server, for one address or for all: it counts
\* the records of the history and changes nothing
GetStats(address) ==
  /\ surface' = [SurfaceReply("GET /faucet/stats", NoHeader,
                              IF variant = "main" /\ address # NoToken /\ ~isAddress(address)
                              THEN 400 ELSE 200, "", TRUE) EXCEPT
                   !.body = AuthBody(address, NoNonce, NoSignature)]
  /\ UNCHANGED <<claimVars, adminTokenRegistry, adminState, authVars, removed, atPause>>

\* the wallet that reads the history
HistoryReader == AddrB

\* One account claims twice, ETH and a token, with the clock advancing in
\* between; a wallet signs in; history and statistics are read.
NextHistory ==
  \/ Tick
  \/ nonceCount = 0 /\ AuthNonce(HistoryReader)
  \/ \E n \in 1..MaxNonces : AuthVerify(HistoryReader, n, Signed(HistoryReader, n))
  \/ \E t \in TokenInputs : ClaimStart(AdminSlot, AdminClaimant, t)
  \/ ClaimExecReads(AdminSlot, "none")
  \/ ClaimSubmit(AdminSlot, "sent")
  \/ ClaimConfirmed(AdminSlot)
  \/ \E k \in ServerlessRoutes, t \in TokenInputs : ServerlessStart(AdminSlot, k, AdminClaimant, t)
  \/ ServerlessElig(AdminSlot, TRUE)
  \/ ServerlessExecReads(AdminSlot, "none")
  \/ ServerlessSubmit(AdminSlot, TRUE)
  \/ ServerlessConfirmed(AdminSlot)
  \/ \E c \in Credentials, a \in HistoryInputs : GetHistory(c, a)
  \/ \E a \in HistoryInputs : ServerlessGetHistory(a)
  \/ \E a \in HistoryInputs \cup {NoToken} : GetStats(a)

SpecHistory == Init /\ [][NextHistory]_vars

\* Wallets ask for nonces and send verify requests with every nonce and
\* signature, in any order, while the clock advances and the cleanup runs.
\* time passes between the requests of a sign-in: a second, or the lifetime
\* of a nonce
NonceTickSteps == {1, NonceLifetime \div MsPerSec}

NonceTick ==
  /\ ticks < MaxNonceTicks
  /\ \E d \in NonceTickSteps : clock' = clock + d
  /\ ticks' = ticks + 1
  /\ UNCHANGED <<variant, chainVars, localVars, reqVars, elig, adminVars, otherVars>>

NextNonce ==
  \/ NonceTick
  \/ \E a \in WalletInputs : AuthNonce(a)
  \/ \E a \in WalletInputs, n \in NonceInputs, g \in Signatures : AuthVerify(a, n, g)
  \/ NonceCleanup

SpecNonce == Init /\ [][NextNonce]_vars

----------------------------------------------------------------------------
(* Properties of the claim flow (specification Spec) *)

\* the request answered last has an answer
Answered == answered.pc = "done"
Answer == answered.resp[1]

\* the answer's message names the blacklist
NamesBlacklist(resp) == \E i \in DOMAIN resp.message : resp.message[i] = "Address is blacklisted"

\* the request names ETH or a token of the process's registry
KnownToken(q) ==
  IF variant = "main"
  THEN getToken(tokenRegistry, ToLowerCase(OrZero(q.tokenAddress))) # NoValue
  ELSE q.route = "eth" \/ ServerlessGetToken(tokenRegistry, q.tokenAddress) # NoValue

\* the request is an ETH claim
EthRequest(q) == IF variant = "main" THEN IsEthClaim(q.tokenAddress) ELSE q.route = "eth"

\* the on-chain cooldown that applies to request q
CooldownOf(q) ==
  IF EthRequest(q) THEN CooldownPeriodEth ELSE supportedTokens(q.tokenAddress).cooldown

\* C1: a claim request (ETH or a registered token) whose recipient was
\* blacklisted on-chain when the request arrived, and none of whose contract
\* reads threw, ends in a failure whose error names the blacklist, and no
\* transaction is submitted for it.
C1_BlacklistedClaimNamesBlacklist ==
  (Answered /\ answered.blacklistedAtStart /\ ~answered.readFailed /\ KnownToken(answered))
    => /\ Answer.status # 200
       /\ NamesBlacklist(Answer)
       /\ answered.tx = NoValue

\* C2: a claim transaction is submitted only by an executor run that has
\* read the recipient's blacklist flag as false and the recipient's last-claim
\* timestamp as 0 or at least the cooldown ago; a run that read the flag as
\* true never has a transaction.
C2_SubmitOnlyAfterChecks ==
  /\ [](\A r \in Requests : reqs[r].isBlacklisted = Some(TRUE) => reqs[r].tx = NoValue)
  /\ [](answered.isBlacklisted = Some(TRUE) => answered.tx = NoValue)
  /\ [][Len(txs') > Len(txs) =>
          /\ Len(txs') = Len(txs) + 1
          /\ \E r \in Requests :
               /\ reqs[r].pc = "submit"
               /\ reqs'[r].tx = Some(Len(txs'))
               /\ txs'[Len(txs')].to = Acct(reqs[r].address)
               /\ reqs[r].isBlacklisted = Some(FALSE)
               /\ reqs[r].lastRead # NoValue
               /\ reqs[r].checkedAt # NoValue
               /\ \/ reqs[r].lastRead[1] = 0
                  \/ reqs[r].checkedAt[1] - reqs[r].lastRead[1] >= CooldownOf(reqs[r])]_vars

\* a transaction was submitted by a run that read an earlier claim whose
\* cooldown had elapsed
C2_Witness ==
  \E r \in Requests :
    /\ reqs[r].pc = "wait"
    /\ reqs[r].isBlacklisted = Some(FALSE)
    /\ reqs[r].lastRead # NoValue
    /\ reqs[r].lastRead[1] # 0

\* C3: a request answered with success appends exactly one record to the
\* history kept under its lowercased address, the record's txHash is the hash
\* of the request's confirmed transaction, and no other history changes.
C3_SuccessAppendsOneRecord ==
  [][(answered' # answered /\ answered'.resp[1].status = 200) =>
       LET key == ToLowerCase(answered'.address)
           before == MapGet(claimHistory, key, <<>>)
       IN /\ key \in DOMAIN claimHistory'
          /\ Len(claimHistory'[key]) = Len(before) + 1
          /\ SubSeq(claimHistory'[key], 1, Len(before)) = before
          /\ answered'.tx # NoValue
          /\ claimHistory'[key][Len(before) + 1].txHash = answered'.tx[1]
          /\ answered'.resp[1].txHash = answered'.tx
          /\ txs'[answered'.tx[1]].status = "confirmed"
          /\ DOMAIN claimHistory' = DOMAIN claimHistory \cup {key}
          /\ \A k \in DOMAIN claimHistory : k # key => claimHistory'[k] = claimHistory[k]]_vars

\* a success answered to a request that gave its address in mixed case, as
\* the second record of that address
C3_Witness ==
  /\ Answered
  /\ Answer.status = 200
  /\ answered.address = AddrAMixed
  /\ AddrA \in DOMAIN claimHistory
  /\ Len(claimHistory[AddrA]) = 2

\* C4: every history record is of a transaction that is confirmed, and the
\* history changes only in the step in which a request waiting for its
\* transaction sees it confirmed; a request without a confirmed transaction
\* appends nothing.
C4_AppendOnlyAfterConfirmation ==
  /\ [](\A k \in DOMAIN claimHistory : \A i \in DOMAIN claimHistory[k] :
          /\ claimHistory[k][i].txHash \in DOMAIN txs
          /\ txs[claimHistory[k][i].txHash].status = "confirmed")
  /\ [][claimHistory' # claimHistory =>
          \E r \in Requests :
            /\ reqs[r].pc = "wait"
            /\ txs'[reqs[r].tx[1]].status = "confirmed"
            /\ answered'.tx = reqs[r].tx
            /\ answered'.resp[1].status = 200]_vars

\* a request whose transaction failed was answered while the history holds
\* the record of another, confirmed one
C4_Witness ==
  /\ Answered
  /\ answered.tx # NoValue
  /\ txs[answered.tx[1]].status = "failed"
  /\ \E k \in DOMAIN claimHistory : Len(claimHistory[k]) = 1

\* C5: an ETH claim request that arrives less than 24 hours after the
\* address's confirmed ETH claim (no contract read throwing, the address not
\* blacklisted) is answered 429 with the remaining cooldown in seconds,
\* 86400 minus the seconds elapsed at some moment of the request, and has no
\* transaction; the calendar day of the two requests does not matter.
C5_EthClaimWithinCooldownIs429 ==
  (/\ Answered
   /\ EthRequest(answered)
   /\ answered.lastAtStart # 0
   /\ answered.startedAt - answered.lastAtStart < CooldownPeriodEth
   /\ ~answered.readFailed
   /\ Acct(answered.address) \notin blacklisted)
    => LET most == CooldownPeriodEth - (answered.startedAt - answered.lastAtStart)
           least == CooldownPeriodEth - (clock - answered.lastAtStart)
           InRange(v) == v # NoValue /\ least <= v[1] /\ v[1] <= most
       IN /\ Answer.status = 429
          /\ InRange(Answer.remainingTime) \/ InRange(Answer.retryAfter)
          /\ answered.tx = NoValue

\* what POST /claim decides for a request arriving now, were the dailyClaims
\* bookkeeping claims: TRUE when the handler reaches the claim transaction
MainAccepts(claims, address, tokenAddress) ==
  /\ ClaimPrecheck(address, tokenAddress, claims, tokenRegistry, DateNow) = NoValue
  /\ IF IsEthClaim(tokenAddress)
     THEN ClaimEthChecks("none", Acct(address) \in blacklisted,
                         lastEthClaimTime[Acct(address)], NowSecs) = NoValue
     ELSE ClaimTokenChecks("none", Acct(address) \in blacklisted,
                           supportedTokens(tokenAddress),
                           LastTokenClaim(address, tokenAddress), NowSecs) = NoValue

\* C10: in every reachable state of the main server, the accept/refuse
\* decision for every request is the one the same on-chain state yields with
\* empty in-memory bookkeeping (a process that has just started).
C10_DecisionFromChainStateOnly ==
  variant = "main" =>
    \A a \in AddressInputs, t \in TokenInputs :
      MainAccepts(dailyClaims, a, t) = MainAccepts(<<>>, a, t)

\* every request that has arrived and is not forgotten: those in flight and
\* the one answered last
LiveRequests == {reqs[r] : r \in Requests} \cup {answered}

\* C11: a request whose submitted transaction failed to confirm is answered
\* with a failure that carries no transaction hash and is not labelled as a
\* gas-estimation failure.
C11_NotConfirmedIsDistinctFailure ==
  (Answered /\ answered.tx # NoValue /\ txs[answered.tx[1]].status = "failed")
    => /\ Answer.status # 200
       /\ Answer.txHash = NoValue
       /\ \A i \in DOMAIN Answer.message : Answer.message[i] # "Gas estimation failed"

\* C12: every submitted claim transaction was preceded, in its request, by
\* a gas estimation that returned, and carries a gas limit of the estimate
\* times 120 divided by 100, rounded down.
C12_SubmitAfterGasEstimate ==
  \A q \in LiveRequests :
    q.tx # NoValue =>
      /\ \E i, j \in DOMAIN q.calls :
           /\ i < j
           /\ q.calls[i] = Call("estimateGas", TRUE)
           /\ q.calls[j].name \in {"claimEthFor", "claimTokenFor"}
      /\ txs[q.tx[1]].gasLimit # NoValue
      /\ \E g \in GasEstimates : txs[q.tx[1]].gasLimit[1] = (g * 120) \div 100

C14_FailedCallNeverCooldown ==
  (Answered /\ \E i \in DOMAIN answered.calls : ~answered.calls[i].ok)
    => Answer.status \in {400, 500}

\* the request names a token, with addresses of valid format
NamesToken(q) ==
  /\ q.tokenAddress # NoToken
  /\ IF variant = "main" THEN isAddress(q.address)
     ELSE q.route = "token" /\ validateAddress(q.address) /\ validateAddress(q.tokenAddress)

\* the answer reports that the token is not supported
SaysNotSupported(resp) ==
  \/ resp.error = "Token not supported"
  \/ \E i \in DOMAIN resp.message : resp.message[i] = "Token not supported by this faucet"

AnswersNow == answered' # answered \/ (started' # started /\ reqs' = reqs)

----------------------------------------------------------------------------
(* Properties of the eligibility checkers (specification SpecElig) *)

\* a checker ran and returned, none of its contract reads having thrown
EligChecked == elig.fn # "" /\ elig.readOk /\ elig.result # NoValue
EligElapsed == elig.now - elig.lastClaimTime

\* C6: for an address not blacklisted whose last-claim timestamp is 0, the
\* check returns canClaim = true: canClaimEth, and canClaimToken for every
\* active token, whatever the time and the token's cooldown.
C6_NeverClaimedIsEligible ==
  (/\ EligChecked
   /\ ~elig.isBlacklisted
   /\ elig.lastClaimTime = 0
   /\ elig.fn = "canClaimToken" => elig.active)
    => elig.result[1].canClaim

\* C7 as stated: for a non-blacklisted address with a non-zero last-claim
\* timestamp, the check returns canClaim = false with remainingTime =
\* cooldown - elapsed when 0 <= elapsed < cooldown, and canClaim = true with
\* no remaining time when elapsed >= cooldown.
C7_CooldownArithmeticAnyToken ==
  (/\ EligChecked
   /\ ~elig.isBlacklisted
   /\ elig.lastClaimTime # 0
   /\ EligElapsed >= 0)
    => elig.result[1] = IF EligElapsed < elig.cooldown
                        THEN Remaining(elig.cooldown - EligElapsed)
                        ELSE Eligible

\* C7, for ETH and for tokens whose on-chain active flag is true: for a
\* non-blacklisted address with a non-zero last-claim timestamp, the check
\* returns canClaim = false with remainingTime = cooldown - elapsed when
\* 0 <= elapsed < cooldown, and canClaim = true with no remaining time when
\* elapsed >= cooldown.
C7_CooldownArithmetic ==
  (/\ EligChecked
   /\ ~elig.isBlacklisted
   /\ elig.lastClaimTime # 0
   /\ EligElapsed >= 0
   /\ elig.fn = "canClaimToken" => elig.active)
    => elig.result[1] = IF EligElapsed < elig.cooldown
                        THEN Remaining(elig.cooldown - EligElapsed)
                        ELSE Eligible

\* BlockchainService.canClaimToken for an active token one second before
\* its cooldown ends answers a remaining time of 1
C7_Witness ==
  /\ EligChecked
  /\ elig.impl = "BlockchainService"
  /\ elig.fn = "canClaimToken"
  /\ elig.active /\ ~elig.isBlacklisted
  /\ elig.lastClaimTime # 0
  /\ EligElapsed = elig.cooldown - 1
  /\ elig.result = Some(Remaining(1))

\* C8: for a blacklisted address, canClaimEth and canClaimToken of each
\* service return canClaim = false with no remainingTime, whatever the
\* last-claim timestamp and the time.
C8_BlacklistedNeverEligible ==
  (EligChecked /\ elig.isBlacklisted) => elig.result[1] = Ineligible

\* C9: for a token whose on-chain active flag is false, canClaimToken returns
\* canClaim = false, whatever the address, the last-claim timestamp and the
\* cooldown.
C9_InactiveTokenNeverEligible ==
  (EligChecked /\ elig.fn = "canClaimToken" /\ ~elig.active) => ~elig.result[1].canClaim

----------------------------------------------------------------------------
(* Properties of the admin routes and the token list (specification        *)
(* SpecAdmin) and of the session tokens (specification SpecAuth)           *)

\* the routes of the admin plugin
AdminRoutes ==
  {"POST /admin/tokens/add", "PUT /admin/tokens/:id", "DELETE /admin/tokens/:address",
   "DELETE /admin/tokens", "POST /admin/pause", "POST /admin/unpause",
   "POST /admin/test-connection"} \cup AdminReadRoutes

\* the last answer is a token list
TokensListed == surface.route = "GET /faucet/tokens" /\ surface.status = 200

\* C16: once an admin has removed a token, and until it is added again, no
\* answer of GET /faucet/tokens lists it.
C16_RemovedTokenNotListed ==
  TokensListed => \A t \in surface.tokens[1] : ToLowerCase(t.address) \notin removed

\* C17: every answer of GET /faucet/tokens is a snapshot of the registry the
\* claim route consults: the same addresses, each with the symbol and the
\* amount a claim of it reports and records.
C17_TokenListIsRegistrySnapshot ==
  TokensListed =>
    {Listed(ToLowerCase(t.address), t.symbol, t.amount) : t \in surface.tokens[1]}
      = getAllTokens(tokenRegistry)

\* C18: while the faucet is paused no claim request submits a transaction:
\* when no claim request was in flight as the pause began, the transactions
\* sent are those sent by then.
C18_PausedFaucetSendsNothing ==
  (adminState.isPaused /\ atPause.idle) => Len(txs) = atPause.txs

\* the Authorization header carries a token signed here and not expired
ValidJwt(credential) ==
  /\ credential.kind = "signed"
  /\ credential.payload[1] \in issued
  /\ NowSecs < credential.payload[1].exp

\* ... whose isAdmin claim is true
AdminJwt(credential) == ValidJwt(credential) /\ credential.payload[1].isAdmin

\* a request is answered on an admin route in this step
AdminAnswersNow == surface' # surface /\ surface'.route \in AdminRoutes

\* C19: an issued token has isAdmin exactly when its address is the
\* configured admin address, compared without regard to case; an admin
\* route's handler runs only for a valid Bearer token with isAdmin, a missing,
\* forged or expired token is answered 401 and a valid one without isAdmin
\* 403; the admin token registry and the pause state change only in a step
\* that answers such an admitted admin request.
C19_AdminNeedsAdminJwt ==
  /\ [](\A p \in issued : p.isAdmin <=> ToLowerCase(p.address) = ToLowerCase(adminAddress))
  /\ [][AdminAnswersNow =>
          /\ surface'.handled <=> AdminJwt(surface'.credential)
          /\ ~ValidJwt(surface'.credential) => surface'.status = 401
          /\ (ValidJwt(surface'.credential) /\ ~AdminJwt(surface'.credential))
               => surface'.status = 403]_vars
  /\ [][(adminTokenRegistry' # adminTokenRegistry \/ adminState' # adminState) =>
          /\ surface'.route \in AdminRoutes
          /\ surface'.handled
          /\ AdminJwt(surface'.credential)]_vars

\* an admin has added a token and paused the faucet, and the last request, on
\* an admin route with a valid token of another wallet, was answered 403
C19_Witness ==
  /\ adminTokenRegistry # <<>>
  /\ adminState.isPaused
  /\ surface.route \in AdminRoutes
  /\ surface.status = 403
  /\ ~surface.handled
  /\ surface.credential.kind = "signed"
  /\ ~surface.credential.payload[1].isAdmin

\* C20: a step that answers an admin request, or changes the admin token
\* registry or the pause state, sends no transaction and leaves the claim
\* history and the per-day claim counters as they are.
C20_AdminLeavesClaimsAlone ==
  [][(AdminAnswersNow \/ adminTokenRegistry' # adminTokenRegistry \/ adminState' # adminState)
       => UNCHANGED <<txs, claimHistory, dailyClaims>>]_vars

\* after a claim was sent, confirmed and recorded, an admin has read the
\* claims
C20_Witness ==
  /\ surface.route = "GET /admin/claims"
  /\ surface.handled
  /\ Len(txs) > 0
  /\ claimHistory # <<>>
  /\ dailyClaims # <<>>

----------------------------------------------------------------------------
(* Properties of the sign-in handshake (specification SpecNonce) *)

\* the body of the request answered last
Body == surface.body[1]

\* C21: a nonce is one-time: no nonce has passed more than one verify
\* request, whatever verify requests were made and in whatever order.
C21_NonceRedeemedAtMostOnce == \A n \in 1..MaxNonces : redeemed[n] <= 1

\* a nonce was redeemed, and the verify request answered last, which
\* presented the same nonce with the same wallet's signature of it, was
\* turned away
C21_Witness ==
  /\ surface.route = "POST /auth/verify"
  /\ surface.status = 400
  /\ surface.error = "Invalid Nonce"
  /\ Body.nonce # NoNonce
  /\ redeemed[Body.nonce] = 1
  /\ Body.signature = Signed(Body.address, Body.nonce)

----------------------------------------------------------------------------
(* Properties of the history store and routes (specification SpecHistory) *)

\* sequence s is the beginning of sequence t
IsPrefix(s, t) == Len(s) <= Len(t) /\ SubSeq(t, 1, Len(s)) = s

\* C22: the history of an address only grows at its end: in every step the
\* stored sequence of every address is a prefix of its stored sequence after
\* the step.
C22_HistoryAppendOnly ==
  [][\A k \in DOMAIN claimHistory :
       k \in DOMAIN claimHistory' /\ IsPrefix(claimHistory[k], claimHistory'[k])]_vars

\* a history request is answered in this step
HistoryAnswersNow ==
  /\ surface' # surface
  /\ surface'.route = "GET /faucet/history/:address"
  /\ surface'.status = 200

\* C23: the answer of a history request holds exactly the records stored
\* for the lowercased address, one entry for each, newest first (timestamps
\* never increase along the list), on either server.
C23_HistoryNewestFirst ==
  [][HistoryAnswersNow =>
       LET stored == MapGet(claimHistory, ToLowerCase(surface'.body[1].address), <<>>)
           claims == surface'.claims[1]
       IN /\ Len(claims) = Len(stored)
          /\ {<<claims[i].txHash, claims[i].timestamp>> : i \in DOMAIN claims}
               = {<<stored[i].txHash, stored[i].timestamp>> : i \in DOMAIN stored}
          /\ \A i \in DOMAIN claims : \A j \in DOMAIN claims :
               i < j => claims[i].timestamp >= claims[j].timestamp]_vars

----------------------------------------------------------------------------
(* Properties of the token registry (specification SpecLookup) *)

\* C24: getToken gives the same answer for all spellings of an address,
\* whatever the registry holds, in both claim data services.
C24_LookupIgnoresCase ==
  \A b \in DOMAIN lookup.results : \A c \in DOMAIN lookup.results :
    lookup.results[b] = lookup.results[c]

----------------------------------------------------------------------------
(* Properties of overlapping claim requests (specification Spec) *)

\* the contract's cooldown for the recipient (and token) of a transaction is
\* running at the present block time
OnChainCooldownActive(tx) ==
  /\ tx.to \in Accounts
  /\ IF tx.token = ZeroAddress
     THEN CooldownActive(lastEthClaimTime[tx.to], NowSecs, CooldownPeriodEth)
     ELSE /\ Acct(tx.token) \in ChainTokens
          /\ CooldownActive(lastClaimTime[<<tx.to, Acct(tx.token)>>], NowSecs,
                            supportedTokens(tx.token).cooldown)

\* C25: whenever a claim transaction is submitted, the on-chain cooldown of
\* its recipient (for ETH) or recipient and token is not active at that
\* moment, also when another request for the address was confirmed between
\* the eligibility check and the submission.
C25_NoSubmitDuringCooldown ==
  [][Len(txs') > Len(txs) => ~OnChainCooldownActive(txs'[Len(txs')])]_vars

\* the number of history records of userKey whose timestamp lies in day
ClaimsOfDay(userKey, day) ==
  Cardinality({i \in DOMAIN claimHistory[userKey] :
                 DateString(claimHistory[userKey][i].timestamp) = day})

\* the days on which userKey has history records
ClaimDays(userKey) ==
  {DateString(claimHistory[userKey][i].timestamp) : i \in DOMAIN claimHistory[userKey]}

\* C26: in the POST /claim route, for every address and day the number of
\* history records of that day is at most the daily claim limit and equals
\* the per-day counter, also when requests for the address overlap.
C26_DailyLimitHolds ==
  variant = "main" =>
    \A userKey \in DOMAIN claimHistory : \A day \in ClaimDays(userKey) :
      /\ ClaimsOfDay(userKey, day) <= DailyClaimLimit
      /\ UserClaims(dailyClaims, userKey, day * MsPerDay).count = ClaimsOfDay(userKey, day)

\* the answer is a failure
Failure(resp) == resp.status \in {400, 429, 500}

\* C27: a step in which a claim request is answered 400, 429 or 500 leaves
\* the per-day counters and the claim history as they were, and so does every
\* step of a request that does not answer: the stores change only in a step
\* that answers a success.
C27_FailureLeavesStores ==
  /\ [][(answered' # answered /\ Failure(answered'.resp[1])) =>
          (dailyClaims' = dailyClaims /\ claimHistory' = claimHistory)]_vars
  /\ [][(dailyClaims' # dailyClaims \/ claimHistory' # claimHistory) =>
          (answered' # answered /\ answered'.resp[1].status = 200)]_vars

\* a request was answered with a failure while the stores hold the one claim
\* made before it
C27_Witness ==
  /\ Answered
  /\ Failure(Answer)
  /\ \E k \in DOMAIN claimHistory : Len(claimHistory[k]) = 1
  /\ variant = "main" => \E k \in DOMAIN dailyClaims : dailyClaims[k].count = 1

----------------------------------------------------------------------------
(* Properties of the serverless handler (specification SpecHandler) *)

\* C28: the handler creates at most one application per process, and every
\* request is handed to an application whose ready() has completed, also
\* when invocations arrive while the first creation is under way.
C28_OneReadyApplication ==
  /\ created <= 1
  /\ injected # NoValue => injected[1].ready

----------------------------------------------------------------------------
(* Properties of the nonce lifetime (specification SpecNonce) *)

\* the step is a POST /auth/verify request that was answered
VerifyAnswersNow == surface' # surface /\ surface'.route = "POST /auth/verify"

\* the request of the step presents, with a signature, the nonce stored for
\* its lowercased address
PresentsStoredNonce ==
  LET b == surface'.body[1]
      key == ToLowerCase(b.address)
  IN /\ isAddress(b.address)
     /\ b.signature # NoSignature
     /\ key \in DOMAIN nonces
     /\ nonces[key].nonce = b.nonce

\* C29: a session token is issued only by a POST /auth/verify that presents
\* the nonce stored for the lowercased address, not more than 300000 ms after
\* that nonce was issued, with a signature of it by the address, whether or
\* not the cleanup has run; a POST /auth/nonce stores a nonce newer than all
\* earlier ones in place of the address's earlier nonce; a verify request
\* that presents the stored nonce after its lifetime is answered 400 and
\* deletes it.
C29_NonceLifetime ==
  /\ [][(issued' # issued \/ redeemed' # redeemed) =>
          LET b == surface'.body[1]
              key == ToLowerCase(b.address)
          IN /\ VerifyAnswersNow
             /\ PresentsStoredNonce
             /\ DateNow - nonces[key].timestamp <= NonceLifetime
             /\ b.signature \in {Signed(w, b.nonce) : w \in {v \in Signers : ToLowerCase(v) = key}}
             /\ key \notin DOMAIN nonces']_vars
  /\ [](\A k \in DOMAIN nonces : nonces[k].nonce <= nonceCount)
  /\ [][nonceCount' # nonceCount =>
          /\ nonceCount' > nonceCount
          /\ surface'.route = "POST /auth/nonce"
          /\ nonces'[ToLowerCase(surface'.body[1].address)].nonce = nonceCount']_vars
  /\ [][(VerifyAnswersNow /\ PresentsStoredNonce
           /\ DateNow - nonces[ToLowerCase(surface'.body[1].address)].timestamp > NonceLifetime) =>
          /\ surface'.status = 400
          /\ surface'.error = "Expired Nonce"
          /\ ToLowerCase(surface'.body[1].address) \notin DOMAIN nonces'
          /\ issued' = issued]_vars

\* a verify request was refused for an expired nonce, which is gone, after
\* another nonce had bought a token at the very end of its lifetime
C29_Witness ==
  /\ surface.route = "POST /auth/verify"
  /\ surface.error = "Expired Nonce"
  /\ ToLowerCase(Body.address) \notin DOMAIN nonces
  /\ \E t \in issued : t.iat = StartClock + NonceLifetime \div MsPerSec

----------------------------------------------------------------------------
(* Properties of the pause state (specification SpecAdmin) *)

PauseRoute == "POST /admin/pause"
UnpauseRoute == "POST /admin/unpause"

\* the handler of the pause or the unpause route answers in this step
PauseAnswersNow ==
  surface' # surface /\ surface'.route \in {PauseRoute, UnpauseRoute} /\ surface'.handled

\* while the faucet is not paused its pause fields are empty
PauseFieldsReset ==
  ~adminState.isPaused =>
    (adminState.pauseReason = "" /\ adminState.pausedAt = 0 /\ adminState.pausedBy = <<>>)

\* the pause state changes only by a pause answered 200 on a faucet that is
\* not paused, or an unpause answered 200 on a paused one
PauseFlips ==
  adminState' # adminState =>
    /\ surface'.status = 200
    /\ \/ surface'.route = PauseRoute /\ ~adminState.isPaused /\ adminState'.isPaused
       \/ surface'.route = UnpauseRoute /\ adminState.isPaused /\ ~adminState'.isPaused

\* the answer to a pause or unpause request that the state does not allow
Rejected == surface'.status = 400 /\ adminState' = adminState

\* C30 as stated: the pause state alternates, a pause of a paused faucet and
\* an unpause of one that is not paused are answered 400 and change nothing,
\* and a faucet that is not paused has empty pause fields.
C30_PauseAlternatesAsStated ==
  /\ []PauseFieldsReset
  /\ [][PauseFlips]_vars
  /\ [][(PauseAnswersNow /\ surface'.route = PauseRoute /\ adminState.isPaused)
          => Rejected]_vars
  /\ [][(PauseAnswersNow /\ surface'.route = UnpauseRoute /\ ~adminState.isPaused)
          => Rejected]_vars

\* C30: the pause state alternates; a pause request with a body on a paused
\* faucet and an unpause of one that is not paused are answered 400, a pause
\* request without a body is answered 500, and all of them change nothing; a
\* faucet that is not paused has empty pause fields.
C30_PauseAlternates ==
  /\ []PauseFieldsReset
  /\ [][PauseFlips]_vars
  /\ [][(PauseAnswersNow /\ surface'.route = PauseRoute /\ adminState.isPaused)
          => IF surface'.body = NoValue
             THEN surface'.status = 500 /\ adminState' = adminState
             ELSE Rejected]_vars
  /\ [][(PauseAnswersNow /\ surface'.route = PauseRoute /\ surface'.body = NoValue)
          => (surface'.status = 500 /\ adminState' = adminState)]_vars
  /\ [][(PauseAnswersNow /\ surface'.route = UnpauseRoute /\ ~adminState.isPaused)
          => Rejected]_vars

\* a second pause request was answered 400 and the faucet is still paused
\* for the reason the first one defaulted to
C30_Witness ==
  /\ surface.route = PauseRoute
  /\ surface.status = 400
  /\ surface.body # NoValue
  /\ adminState.isPaused
  /\ adminState.pauseReason = "Maintenance"
  /\ adminState.pausedBy = AdminWallet

====
